---- MODULE Spec2Model ----
(***************************************************************************)
(* Replica placement core of the cluster master (master/node_selector.go): *)
(* the four node selectors (RoundRobin, AvailableSpaceFirst, CarryWeight,  *)
(* Straw), the writability predicate, and the node-set coordinator that    *)
(* serialises Select calls.                                                *)
(*                                                                         *)
(* Conventions.                                                            *)
(*  - Capacities are in GB.  Every total in the fleet tables is a power of *)
(*    two, so each float64 quotient free/maxTotal of the source is a       *)
(*    multiple of 1/CarryScale and float64 arithmetic on it is exact; a    *)
(*    carry or weight x is stored as the integer x * CarryScale.           *)
(*  - A Go slice is a sequence (index i of the source is i+1 here), a      *)
(*    sync.Map is a function whose domain is the set of stored ids, and    *)
(*    the order in which Range visits it is any enumeration of the domain. *)
(***************************************************************************)
EXTENDS Integers, Sequences, FiniteSets, TLC

\* ------------------------------------------------------------ bounds
MaxNodes == 3        \* node ids are 1..MaxNodes
MaxReplicaNum == 3   \* replicaNum is drawn from 0..MaxReplicaNum
MaxIndex == 4        \* RoundRobin calls are issued while index <= MaxIndex
MaxSnaps == 3        \* snapshots handed to a partition's scheduler
MaxApplyID == 2      \* snapshot ApplyIDs are 1..MaxApplyID
StoreChanCap == 1    \* the capacity of mp.storeChan
MaxCursor == 1       \* the partition's cursor is drawn from 0..MaxCursor

NodeIds == 1..MaxNodes

\* ------------------------------------------------------------ constants
RoundRobinNodeSelectorName == "RoundRobin"
CarryWeightNodeSelectorName == "CarryWeight"
AvailableSpaceFirstNodeSelectorName == "AvailableSpaceFirst"
StrawNodeSelectorName == "Straw"
DefaultNodeSelectorName == CarryWeightNodeSelectorName
StrawNodeSelectorRandMax == 65536

DataNodeDisk == "DataNodeDisk"
MetaNodeMemory == "MetaNodeMemory"
MetaNodeRocksdb == "MetaNodeRocksdb"
NodeResourceType == {DataNodeDisk, MetaNodeMemory, MetaNodeRocksdb}

StoreModeMem == "StoreModeMem"
StoreModeRocksDb == "StoreModeRocksDb"

ErrNil == "nil"
ErrNoEnoughHosts == "no enough hosts"
ErrNoEnoughWritableHosts == "no enough writable hosts"
ErrReshuffleArray == "orderHosts is nil"

StateStopped == "Stopped"
StateRunning == "Running"
startStoreTick == "startStoreTick"
stopStoreTick == "stopStoreTick"
opFSMStoreTick == "opFSMStoreTick"

\* carries and weights are stored as multiples of 1/CarryScale
CarryScale == 4
CarryOne == 1 * CarryScale     \* the float64 1.0
CarryMax == 10 * CarryScale    \* the float64 10.0

\* ------------------------------------------------------------ the fleet
\* Addresses and capacities of the nodes, by id.  Node 3 has no free disk and
\* no free memory, but its RocksDB space is free.
AddrTable == <<"10.0.0.1", "10.0.0.2", "10.0.0.3", "10.0.0.4", "10.0.0.5">>
DataTotalTable == <<4, 2, 4, 4, 2>>
DataAvailTable == <<4, 2, 0, 2, 2>>
MetaTotalTable == <<4, 2, 4, 4, 2>>
MetaUsedTable == <<0, 0, 4, 2, 0>>
RocksdbTotalTable == <<4, 4, 2, 4, 4>>
RocksdbUsedTable == <<2, 0, 0, 4, 2>>

\* what the heartbeats of a node make of its writability
DataNodeStates == {"ok", "offline", "oversold"}
MetaNodeStates == {"memOnly", "rocksdbOnly"}

\* a *DataNode as the selectors see it
NewDataNode(id, st) ==
    [ID |-> id, Addr |-> AddrTable[id],
     Total |-> DataTotalTable[id], AvailableSpace |-> DataAvailTable[id],
     ToBeOffline |-> (st = "offline"), OverSold |-> (st = "oversold")]

\* a *MetaNode as the selectors see it
NewMetaNode(id, st) ==
    [ID |-> id, Addr |-> AddrTable[id],
     Total |-> MetaTotalTable[id], Used |-> MetaUsedTable[id],
     RocksdbTotal |-> RocksdbTotalTable[id], RocksdbUsed |-> RocksdbUsedTable[id],
     WritableMem |-> (st \in {"both", "memOnly"}),
     WritableRocksdb |-> (st \in {"both", "rocksdbOnly"})]

canAlloc(dataNode) == ~dataNode.OverSold
canAllocDp(dataNode) == ~dataNode.ToBeOffline
isWritable(metaNode, storeMode) ==
    IF storeMode = StoreModeRocksDb THEN metaNode.WritableRocksdb ELSE metaNode.WritableMem
GetRocksdbTotal(metaNode) == metaNode.RocksdbTotal
GetRocksdbUsed(metaNode) == metaNode.RocksdbUsed

contains(arr, element) == \E i \in 1..Len(arr) : arr[i] = element

\* SelectNodeForWrite: the node's pending counter of the resource type goes up by one
SelectNodeForWrite(pend, id, resource) == [pend EXCEPT ![resource][id] = @ + 1]

\* ------------------------------------------------------------ helpers
RECURSIVE Perms(_)
Perms(S) ==
    IF S = {} THEN {<<>>}
    ELSE UNION {{<<x>> \o p : p \in Perms(S \ {x})} : x \in S}

\* every order in which Range can visit the map
RangeOrders(nodes) == {[i \in 1..Len(p) |-> nodes[p[i]]] : p \in Perms(DOMAIN nodes)}

\* the rearrangements of a sequence
Rearrangements(seq) == {[i \in 1..Len(seq) |-> seq[p[i]]] : p \in Perms(1..Len(seq))}

\* faulty variant (mutation analysis of C33): the first host is returned in every place
reshuffleHostsRepeatHead(oldHosts) ==
    IF Len(oldHosts) = 0
    THEN {[newHosts |-> <<>>, err |-> ErrReshuffleArray]}
    ELSE {[newHosts |-> [i \in 1..Len(oldHosts) |-> oldHosts[1]], err |-> ErrNil]}

\* reshuffleHosts: an error for an empty list, otherwise any permutation of it
reshuffleHosts(oldHosts) ==
    IF Len(oldHosts) = 0
    THEN {[newHosts |-> <<>>, err |-> ErrReshuffleArray]}
    ELSE {[newHosts |-> h, err |-> ErrNil] : h \in Rearrangements(oldHosts)}

getNodes(ns, nodeType) ==
    IF nodeType = DataNodeDisk THEN ns.dataNodes ELSE ns.metaNodes

\* faulty variant (mutation analysis of C4): a data node about to go offline passes
canAllocPartitionNoDp(node, nodeType) ==
    CASE nodeType = DataNodeDisk -> canAlloc(node)
      [] nodeType = MetaNodeMemory -> isWritable(node, StoreModeMem)
      [] nodeType = MetaNodeRocksdb -> isWritable(node, StoreModeRocksDb)

canAllocPartition(node, nodeType) ==
    CASE nodeType = DataNodeDisk -> canAlloc(node) /\ canAllocDp(node)
      [] nodeType = MetaNodeMemory -> isWritable(node, StoreModeMem)
      [] nodeType = MetaNodeRocksdb -> isWritable(node, StoreModeRocksDb)

\* the value every Select returns, with what it did on the way:
\* charged lists the ids SelectNodeForWrite was invoked on, in order;
\* s is the selector after the call; returns is FALSE when the call never returns
Result(newHosts, peers, err, s, charged, orderHosts, nodeIndex) ==
    [newHosts |-> newHosts, peers |-> peers, err |-> err, s |-> s,
     charged |-> charged, orderHosts |-> orderHosts, nodeIndex |-> nodeIndex,
     returns |-> TRUE]

\* the common tail of the four Select methods: reshuffle for primary-backup replication
Reshuffled(r) ==
    {[r EXCEPT !.newHosts = x.newHosts, !.err = x.err] : x \in reshuffleHosts(r.orderHosts)}

\* faulty variant (mutation analysis of C8): the peer's ID is left at its zero value
PeerNoID(node) == [ID |-> 0, Addr |-> node.Addr]

Peer(node) == [ID |-> node.ID, Addr |-> node.Addr]

\* the loop state of the pick loops
PickState0 == [i |-> 0, nodeIndex |-> 0, orderHosts |-> <<>>, peers |-> <<>>, charged |-> <<>>]

\* ------------------------------------------------------------ RoundRobin
NewRoundRobinNodeSelector(nodeType) ==
    [name |-> RoundRobinNodeSelectorName, nodeType |-> nodeType, index |-> 0, carry |-> <<>>]

\* sort.Slice by GetID() ascending (ids are unique: one outcome), by insertion
RECURSIVE InsertByID(_, _)
InsertByID(sorted, node) ==
    IF sorted = <<>> THEN <<node>>
    ELSE IF node.ID < Head(sorted).ID THEN <<node>> \o sorted
    ELSE <<Head(sorted)>> \o InsertByID(Tail(sorted), node)

\* faulty variant (mutation analysis of C10): the nodes stay in Range order
SortByIDUnsorted(nodes) == nodes

RECURSIVE SortByID(_)
SortByID(nodes) ==
    IF nodes = <<>> THEN <<>>
    ELSE InsertByID(SortByID(Tail(nodes)), Head(nodes))

\* the inner loop: advance nodeIndex until a writable, non-excluded node is met
RECURSIVE RoundRobinScan(_, _, _, _)
RoundRobinScan(s, sortedNodes, excludeHosts, nodeIndex) ==
    IF nodeIndex < Len(sortedNodes)
    THEN LET node == sortedNodes[((nodeIndex + s.index) % Len(sortedNodes)) + 1]
             next == nodeIndex + 1
         IN IF canAllocPartition(node, s.nodeType)
               /\ (excludeHosts = <<>> \/ ~contains(excludeHosts, node.Addr))
            THEN [nodeIndex |-> next, selectedIndex |-> next - 1]
            ELSE RoundRobinScan(s, sortedNodes, excludeHosts, next)
    ELSE [nodeIndex |-> nodeIndex, selectedIndex |-> Len(sortedNodes)]

\* the outer loop: pick first N nodes, charging each as it is picked
RECURSIVE RoundRobinPick(_, _, _, _, _)
RoundRobinPick(s, sortedNodes, excludeHosts, replicaNum, st) ==
    IF st.i < replicaNum /\ st.nodeIndex < Len(sortedNodes)
    THEN LET sc == RoundRobinScan(s, sortedNodes, excludeHosts, st.nodeIndex)
             node == sortedNodes[((sc.selectedIndex + s.index) % Len(sortedNodes)) + 1]
             next == IF sc.selectedIndex # Len(sortedNodes)
                     THEN [i |-> st.i + 1, nodeIndex |-> sc.nodeIndex,
                           orderHosts |-> Append(st.orderHosts, node.Addr),
                           peers |-> Append(st.peers, Peer(node)),
                           charged |-> Append(st.charged, node.ID)]
                     ELSE [st EXCEPT !.i = @ + 1, !.nodeIndex = sc.nodeIndex]
         IN RoundRobinPick(s, sortedNodes, excludeHosts, replicaNum, next)
    ELSE st

\* faulty variant (mutation analysis of C32): the cursor is not moved
RoundRobinSelectFixedCursor(s, ns, excludeHosts, replicaNum, iter) ==
    IF replicaNum = 0 THEN {Result(<<>>, <<>>, ErrNil, s, <<>>, <<>>, 0)}
    ELSE IF Len(iter) < replicaNum
    THEN {Result(<<>>, <<>>, ErrNoEnoughWritableHosts, s, <<>>, <<>>, 0)}
    ELSE LET sortedNodes == SortByID(iter)
             st == RoundRobinPick(s, sortedNodes, excludeHosts, replicaNum, PickState0)
         IN IF Len(st.orderHosts) < replicaNum
            THEN {Result(<<>>, st.peers, ErrNoEnoughWritableHosts, s,
                         st.charged, st.orderHosts, st.nodeIndex)}
            ELSE Reshuffled(Result(<<>>, st.peers, ErrNil, s,
                                   st.charged, st.orderHosts, st.nodeIndex))

\* faulty variant (mutation analysis of C9): the cursor moves by the number of
\* nodes accepted instead of the number examined
RoundRobinSelectAccepted(s, ns, excludeHosts, replicaNum, iter) ==
    IF replicaNum = 0 THEN {Result(<<>>, <<>>, ErrNil, s, <<>>, <<>>, 0)}
    ELSE IF Len(iter) < replicaNum
    THEN {Result(<<>>, <<>>, ErrNoEnoughWritableHosts, s, <<>>, <<>>, 0)}
    ELSE LET sortedNodes == SortByID(iter)
             st == RoundRobinPick(s, sortedNodes, excludeHosts, replicaNum, PickState0)
         IN IF Len(st.orderHosts) < replicaNum
            THEN {Result(<<>>, st.peers, ErrNoEnoughWritableHosts, s,
                         st.charged, st.orderHosts, st.nodeIndex)}
            ELSE Reshuffled(Result(<<>>, st.peers, ErrNil,
                                   [s EXCEPT !.index = @ + Len(st.orderHosts)],
                                   st.charged, st.orderHosts, st.nodeIndex))

\* RoundRobinNodeSelector.Select, for one Range order of the node map
RoundRobinSelect(s, ns, excludeHosts, replicaNum, iter) ==
    IF replicaNum = 0 THEN {Result(<<>>, <<>>, ErrNil, s, <<>>, <<>>, 0)}
    ELSE IF Len(iter) < replicaNum
    THEN {Result(<<>>, <<>>, ErrNoEnoughWritableHosts, s, <<>>, <<>>, 0)}
    ELSE LET sortedNodes == SortByID(iter)
             st == RoundRobinPick(s, sortedNodes, excludeHosts, replicaNum, PickState0)
         IN IF Len(st.orderHosts) < replicaNum
            THEN {Result(<<>>, st.peers, ErrNoEnoughWritableHosts, s,
                         st.charged, st.orderHosts, st.nodeIndex)}
            ELSE Reshuffled(Result(<<>>, st.peers, ErrNil,
                                   [s EXCEPT !.index = @ + st.nodeIndex],
                                   st.charged, st.orderHosts, st.nodeIndex))

\* ------------------------------------------------------------ AvailableSpaceFirst
NewAvailableSpaceFirstNodeSelector(nodeType) ==
    [name |-> AvailableSpaceFirstNodeSelectorName, nodeType |-> nodeType,
     index |-> 0, carry |-> <<>>]

getNodeAvailableSpace(s, node) ==
    CASE s.nodeType = DataNodeDisk -> node.AvailableSpace
      [] s.nodeType = MetaNodeMemory -> node.Total - node.Used
      [] s.nodeType = MetaNodeRocksdb -> GetRocksdbTotal(node) - GetRocksdbUsed(node)

\* faulty variant (mutation analysis of C12): the nodes are left in any order
SortByAvailableSpaceAny(s, nodes) == Rearrangements(nodes)

\* sort.Slice by available space, descending; it is not stable, so nodes of
\* equal space come out in any order
SortByAvailableSpace(s, nodes) ==
    {p \in Rearrangements(nodes) :
        \A i \in 1..Len(p) : \A j \in i..Len(p) :
            getNodeAvailableSpace(s, p[i]) >= getNodeAvailableSpace(s, p[j])}

RECURSIVE AvailableSpaceFirstScan(_, _, _, _)
AvailableSpaceFirstScan(s, sortedNodes, excludeHosts, nodeIndex) ==
    IF nodeIndex < Len(sortedNodes)
    THEN LET node == sortedNodes[nodeIndex + 1]
             next == nodeIndex + 1
         IN IF canAllocPartition(node, s.nodeType)
               /\ (excludeHosts = <<>> \/ ~contains(excludeHosts, node.Addr))
            THEN [nodeIndex |-> next, selectedIndex |-> next - 1]
            ELSE AvailableSpaceFirstScan(s, sortedNodes, excludeHosts, next)
    ELSE [nodeIndex |-> nodeIndex, selectedIndex |-> Len(sortedNodes)]

\* faulty variant (mutation analysis of C3): the picked node is not charged
RECURSIVE AvailableSpaceFirstPickNoCharge(_, _, _, _, _)
AvailableSpaceFirstPickNoCharge(s, sortedNodes, excludeHosts, replicaNum, st) ==
    IF st.i < replicaNum /\ st.nodeIndex < Len(sortedNodes)
    THEN LET sc == AvailableSpaceFirstScan(s, sortedNodes, excludeHosts, st.nodeIndex)
             node == sortedNodes[sc.selectedIndex + 1]
             next == IF sc.selectedIndex # Len(sortedNodes)
                     THEN [i |-> st.i + 1, nodeIndex |-> sc.nodeIndex,
                           orderHosts |-> Append(st.orderHosts, node.Addr),
                           peers |-> Append(st.peers, Peer(node)),
                           charged |-> st.charged]
                     ELSE [st EXCEPT !.i = @ + 1, !.nodeIndex = sc.nodeIndex]
         IN AvailableSpaceFirstPickNoCharge(s, sortedNodes, excludeHosts, replicaNum, next)
    ELSE st

RECURSIVE AvailableSpaceFirstPick(_, _, _, _, _)
AvailableSpaceFirstPick(s, sortedNodes, excludeHosts, replicaNum, st) ==
    IF st.i < replicaNum /\ st.nodeIndex < Len(sortedNodes)
    THEN LET sc == AvailableSpaceFirstScan(s, sortedNodes, excludeHosts, st.nodeIndex)
             node == sortedNodes[sc.selectedIndex + 1]
             next == IF sc.selectedIndex # Len(sortedNodes)
                     THEN [i |-> st.i + 1, nodeIndex |-> sc.nodeIndex,
                           orderHosts |-> Append(st.orderHosts, node.Addr),
                           peers |-> Append(st.peers, Peer(node)),
                           charged |-> Append(st.charged, node.ID)]
                     ELSE [st EXCEPT !.i = @ + 1, !.nodeIndex = sc.nodeIndex]
         IN AvailableSpaceFirstPick(s, sortedNodes, excludeHosts, replicaNum, next)
    ELSE st

\* AvailableSpaceFirstNodeSelector.Select, for one Range order of the node map
AvailableSpaceFirstSelect(s, ns, excludeHosts, replicaNum, iter) ==
    IF replicaNum = 0 THEN {Result(<<>>, <<>>, ErrNil, s, <<>>, <<>>, 0)}
    ELSE IF Len(iter) < replicaNum
    THEN {Result(<<>>, <<>>, ErrNoEnoughHosts, s, <<>>, <<>>, 0)}
    ELSE UNION {
        LET st == AvailableSpaceFirstPick(s, sortedNodes, excludeHosts, replicaNum, PickState0)
        IN IF Len(st.orderHosts) < replicaNum
           THEN {Result(<<>>, st.peers, ErrNoEnoughWritableHosts, s,
                        st.charged, st.orderHosts, st.nodeIndex)}
           ELSE Reshuffled(Result(<<>>, st.peers, ErrNil, s,
                                  st.charged, st.orderHosts, st.nodeIndex))
        : sortedNodes \in SortByAvailableSpace(s, iter)}

\* ------------------------------------------------------------ CarryWeight
NewCarryWeightNodeSelector(nodeType) ==
    [name |-> CarryWeightNodeSelectorName, nodeType |-> nodeType, index |-> 0, carry |-> <<>>]

Max(a, b) == IF a > b THEN a ELSE b
Min(a, b) == IF a < b THEN a ELSE b

RECURSIVE MaxOver(_, _)
\* the running maximum "if x > total { total = x }" over a set of values, from 0
MaxOver(values, total) ==
    IF values = {} THEN total
    ELSE LET x == CHOOSE v \in values : TRUE
         IN MaxOver(values \ {x}, Max(x, total))

getTotalMaxForDataNodes(nodes) == MaxOver({nodes[id].Total : id \in DOMAIN nodes}, 0)
getTotalMaxForMetaNodeMemory(nodes) == MaxOver({nodes[id].Total : id \in DOMAIN nodes}, 0)
getTotalMaxForMetaNodeRocksdb(nodes) ==
    MaxOver({GetRocksdbTotal(nodes[id]) : id \in DOMAIN nodes}, 0)

getTotalMax(s, nodes) ==
    CASE s.nodeType = DataNodeDisk -> getTotalMaxForDataNodes(nodes)
      [] s.nodeType = MetaNodeMemory -> getTotalMaxForMetaNodeMemory(nodes)
      [] s.nodeType = MetaNodeRocksdb -> getTotalMaxForMetaNodeRocksdb(nodes)

\* float64(free) / float64(total), in units of 1/CarryScale
Ratio(free, total) == (free * CarryScale) \div total

\* faulty variant (mutation analysis of C24): every node of the map is
\* initialised again, whether it has an entry or not
InitCarryOverwrite(carry, initial) ==
    [id \in (DOMAIN carry) \cup (DOMAIN initial) |->
        IF id \in DOMAIN initial THEN initial[id] ELSE carry[id]]

\* the carry map with an entry added for every node that has none:
\* "if _, ok := s.carry[ID]; !ok { s.carry[ID] = ... }" over the map
InitCarry(carry, initial) ==
    [id \in (DOMAIN carry) \cup (DOMAIN initial) |->
        IF id \in DOMAIN carry THEN carry[id] ELSE initial[id]]

prepareCarryForDataNodes(s, nodes, total) ==
    InitCarry(s.carry, [id \in DOMAIN nodes |-> Ratio(nodes[id].AvailableSpace, total)])

prepareCarryForMetaNodeMemory(s, nodes, total) ==
    InitCarry(s.carry, [id \in DOMAIN nodes |-> Ratio(nodes[id].Total - nodes[id].Used, total)])

prepareCarryForMetaNodeRocksdb(s, nodes, total) ==
    InitCarry(s.carry,
              [id \in DOMAIN nodes |->
                  Ratio(GetRocksdbTotal(nodes[id]) - GetRocksdbUsed(nodes[id]), total)])

prepareCarry(s, nodes, total) ==
    CASE s.nodeType = DataNodeDisk -> prepareCarryForDataNodes(s, nodes, total)
      [] s.nodeType = MetaNodeMemory -> prepareCarryForMetaNodeMemory(s, nodes, total)
      [] s.nodeType = MetaNodeRocksdb -> prepareCarryForMetaNodeRocksdb(s, nodes, total)

\* new(weightedNode): ID is never assigned and keeps its zero value
WeightedNode(carry, weight, node) == [Carry |-> carry, Weight |-> weight, Ptr |-> node, ID |-> 0]

\* faulty variant (mutation analysis of C31): every listed entry counts as available
CountAvailAll(nodeTabs) == Len(nodeTabs)

CountAvail(nodeTabs) == Cardinality({i \in 1..Len(nodeTabs) : nodeTabs[i].Carry >= CarryOne})

\* faulty variant (mutation analysis of C5): excluded data nodes are listed too
getCarryDataNodesNoExclude(s, maxTotal, excludeHosts, iter) ==
    LET listed == SelectSeq(iter, LAMBDA dataNode :
                      /\ canAllocDp(dataNode)
                      /\ canAlloc(dataNode))
        nodeTabs == [i \in 1..Len(listed) |->
                        WeightedNode(s.carry[listed[i].ID],
                                     Ratio(listed[i].AvailableSpace, maxTotal), listed[i])]
    IN [nodeTabs |-> nodeTabs, availCount |-> CountAvail(nodeTabs)]

getCarryDataNodes(s, maxTotal, excludeHosts, iter) ==
    LET listed == SelectSeq(iter, LAMBDA dataNode :
                      /\ ~contains(excludeHosts, dataNode.Addr)
                      /\ canAllocDp(dataNode)
                      /\ canAlloc(dataNode))
        nodeTabs == [i \in 1..Len(listed) |->
                        WeightedNode(s.carry[listed[i].ID],
                                     Ratio(listed[i].AvailableSpace, maxTotal), listed[i])]
    IN [nodeTabs |-> nodeTabs, availCount |-> CountAvail(nodeTabs)]

getCarryMetaNodes(s, maxTotal, excludeHosts, iter) ==
    LET storeMode == IF s.nodeType = MetaNodeRocksdb THEN StoreModeRocksDb ELSE StoreModeMem
        listed == SelectSeq(iter, LAMBDA metaNode :
                      /\ ~contains(excludeHosts, metaNode.Addr)
                      /\ isWritable(metaNode, storeMode))
        nodeTabs == [i \in 1..Len(listed) |->
                        WeightedNode(s.carry[listed[i].ID],
                                     Ratio(listed[i].Total - listed[i].Used, maxTotal), listed[i])]
    IN [nodeTabs |-> nodeTabs, availCount |-> CountAvail(nodeTabs)]

getCarryNodes(s, maxTotal, excludeHosts, iter) ==
    IF s.nodeType = DataNodeDisk
    THEN getCarryDataNodes(s, maxTotal, excludeHosts, iter)
    ELSE getCarryMetaNodes(s, maxTotal, excludeHosts, iter)

\* faulty variant (mutation analysis of C14): the carries are limited to 11.0
AdvancePassHighCap(nodes) ==
    [i \in 1..Len(nodes) |->
        [nodes[i] EXCEPT !.Carry = Min(@ + nodes[i].Weight, CarryMax + CarryOne)]]

\* one pass of the advancement loop over every listed entry
AdvancePass(nodes) ==
    [i \in 1..Len(nodes) |-> [nodes[i] EXCEPT !.Carry = Min(@ + nodes[i].Weight, CarryMax)]]

\* the carry map after the pass has written every listed entry back
StoreCarry(carry, nodes) ==
    [id \in DOMAIN carry |->
        IF \E i \in 1..Len(nodes) : nodes[i].Ptr.ID = id
        THEN (CHOOSE c \in {nodes[i].Carry : i \in {j \in 1..Len(nodes) : nodes[j].Ptr.ID = id}} : TRUE)
        ELSE carry[id]]

\* setNodeCarry: passes are made while availCarryCount < replicaNum.  A pass
\* that changes no carry and leaves the count short is repeated for ever:
\* returns = FALSE
RECURSIVE setNodeCarry(_, _, _, _)
setNodeCarry(carry, nodes, availCarryCount, replicaNum) ==
    IF availCarryCount < replicaNum
    THEN LET advanced == AdvancePass(nodes)
             count == Cardinality({i \in 1..Len(advanced) : advanced[i].Carry > CarryOne})
             stored == StoreCarry(carry, advanced)
         IN IF advanced = nodes /\ count < replicaNum
            THEN [nodes |-> advanced, carry |-> stored, returns |-> FALSE]
            ELSE setNodeCarry(stored, advanced, count, replicaNum)
    ELSE [nodes |-> nodes, carry |-> carry, returns |-> TRUE]

\* faulty variant (mutation analysis of C23): the entries are not sorted at all
SortedWeightedNodesUnsorted(nodes) == Rearrangements(nodes)

\* faulty variant (mutation analysis of C15): the entries are sorted by carry ascending
SortedWeightedNodesAscending(nodes) ==
    {p \in Rearrangements(nodes) :
        \A i \in 1..Len(p) : \A j \in i..Len(p) : p[i].Carry <= p[j].Carry}

\* sort.Sort with Less(i, j) = Carry[i] > Carry[j]; it is not stable, so entries
\* of equal carry come out in any order
SortedWeightedNodes(nodes) ==
    {p \in Rearrangements(nodes) :
        \A i \in 1..Len(p) : \A j \in i..Len(p) : p[i].Carry >= p[j].Carry}

\* faulty variant (mutation analysis of C13): the picked nodes keep their carry
CarryWeightPickNoDecrement(s, weightedNodes, replicaNum) ==
    LET picked == [i \in 1..replicaNum |-> weightedNodes[i].Ptr]
    IN Result(<<>>, [i \in 1..replicaNum |-> Peer(picked[i])], ErrNil, s,
              [i \in 1..replicaNum |-> picked[i].ID],
              [i \in 1..replicaNum |-> picked[i].Addr], 0)

\* selectNodeForWrite on the first replicaNum entries, in order
CarryWeightPick(s, weightedNodes, replicaNum) ==
    LET picked == [i \in 1..replicaNum |-> weightedNodes[i].Ptr]
        ids == {picked[i].ID : i \in 1..replicaNum}
    IN Result(<<>>, [i \in 1..replicaNum |-> Peer(picked[i])], ErrNil,
              [s EXCEPT !.carry = [id \in DOMAIN s.carry |->
                                     IF id \in ids THEN s.carry[id] - CarryOne ELSE s.carry[id]]],
              [i \in 1..replicaNum |-> picked[i].ID],
              [i \in 1..replicaNum |-> picked[i].Addr], 0)

\* faulty variant (mutation analysis of C30): the listed entries are advanced
\* once before they are counted
CarryWeightSelectAdvanceFirst(s, ns, excludeHosts, replicaNum, iter) ==
    LET nodes == getNodes(ns, s.nodeType)
        total == getTotalMax(s, nodes)
        s1 == [s EXCEPT !.carry = prepareCarry(s, nodes, total)]
    IN IF replicaNum = 0 THEN {Result(<<>>, <<>>, ErrNil, s1, <<>>, <<>>, 0)}
       ELSE LET wn == getCarryNodes(s1, total, excludeHosts, iter)
                first == AdvancePass(wn.nodeTabs)
                s2 == [s1 EXCEPT !.carry = StoreCarry(s1.carry, first)]
            IN IF Len(wn.nodeTabs) < replicaNum
               THEN {Result(<<>>, <<>>, ErrNoEnoughWritableHosts, s2, <<>>, <<>>, 0)}
               ELSE LET adv == setNodeCarry(s2.carry, first, CountAvail(first), replicaNum)
                        s3 == [s2 EXCEPT !.carry = adv.carry]
                    IN IF ~adv.returns
                       THEN {[Result(<<>>, <<>>, ErrNil, s3, <<>>, <<>>, 0)
                                 EXCEPT !.returns = FALSE]}
                       ELSE UNION {Reshuffled(CarryWeightPick(s3, weightedNodes, replicaNum))
                                   : weightedNodes \in SortedWeightedNodes(adv.nodes)}

\* CarryWeightNodeSelector.Select, for one Range order of the node map
CarryWeightSelect(s, ns, excludeHosts, replicaNum, iter) ==
    LET nodes == getNodes(ns, s.nodeType)
        total == getTotalMax(s, nodes)
        s1 == [s EXCEPT !.carry = prepareCarry(s, nodes, total)]
    IN IF replicaNum = 0 THEN {Result(<<>>, <<>>, ErrNil, s1, <<>>, <<>>, 0)}
       ELSE LET wn == getCarryNodes(s1, total, excludeHosts, iter)
            IN IF Len(wn.nodeTabs) < replicaNum
               THEN {Result(<<>>, <<>>, ErrNoEnoughWritableHosts, s1, <<>>, <<>>, 0)}
               ELSE LET adv == setNodeCarry(s1.carry, wn.nodeTabs, wn.availCount, replicaNum)
                        s2 == [s1 EXCEPT !.carry = adv.carry]
                    IN IF ~adv.returns
                       THEN {[Result(<<>>, <<>>, ErrNil, s2, <<>>, <<>>, 0)
                                 EXCEPT !.returns = FALSE]}
                       ELSE UNION {Reshuffled(CarryWeightPick(s2, weightedNodes, replicaNum))
                                   : weightedNodes \in SortedWeightedNodes(adv.nodes)}

\* ------------------------------------------------------------ Straw
NewStrawNodeSelector(nodeType) ==
    [name |-> StrawNodeSelectorName, nodeType |-> nodeType, index |-> 0, carry |-> <<>>]

\* the values rand.Intn(StrawNodeSelectorRandMax) is drawn from here: 0 and
\* powers of two, whose logarithm is exact
RandDraws == {0, 256, 32768}

RECURSIVE Log2(_)
Log2(r) == IF r <= 1 THEN 0 ELSE 1 + Log2(r \div 2)

\* the weight in GB
getWeight(s, node) ==
    CASE s.nodeType = DataNodeDisk -> node.AvailableSpace
      [] s.nodeType = MetaNodeMemory -> node.Total - node.Used
      [] s.nodeType = MetaNodeRocksdb -> GetRocksdbTotal(node) - GetRocksdbUsed(node)

\* math.Log(r / RandMax) / weight as a float64: -Inf when r = 0 (log 0) or the
\* weight is 0 (a negative number over 0); otherwise -(num / den) * ln 2
Straw(r, weight) ==
    IF r = 0 \/ weight = 0
    THEN [negInf |-> TRUE, num |-> 0, den |-> 1]
    ELSE [negInf |-> FALSE, num |-> Log2(StrawNodeSelectorRandMax) - Log2(r), den |-> weight]

\* a > b on such float64 values
StrawGreater(a, b) ==
    IF a.negInf THEN FALSE
    ELSE IF b.negInf THEN TRUE
    ELSE a.num * b.den < b.num * a.den

RECURSIVE selectOneNodeFrom(_, _, _, _, _, _)
selectOneNodeFrom(s, nodes, draws, i, index, maxStraw) ==
    IF i > Len(nodes) THEN index
    ELSE LET straw == Straw(draws[i], getWeight(s, nodes[i]))
         IN IF index = -1 \/ StrawGreater(straw, maxStraw)
            THEN selectOneNodeFrom(s, nodes, draws, i + 1, i - 1, straw)
            ELSE selectOneNodeFrom(s, nodes, draws, i + 1, index, maxStraw)

\* selectOneNode for the draws made: the (0-based) index of the winner
selectOneNode(s, nodes, draws) ==
    selectOneNodeFrom(s, nodes, draws, 1, -1, [negInf |-> FALSE, num |-> 0, den |-> 1])

\* faulty variant (mutation analysis of C1): the head is dropped without the swap,
\* so the winner stays in the list
StrawRemoveHead(nodes, index) == Tail(nodes)

\* nodes[0], nodes[index] = node, nodes[0]; nodes = nodes[1:]
StrawRemove(nodes, index) ==
    Tail([nodes EXCEPT ![index + 1] = nodes[1]])

\* faulty variant (mutation analysis of C17): the loop does not stop when too few
\* nodes are left, it draws until the list is empty
RECURSIVE StrawPickNoBreak(_, _, _, _)
StrawPickNoBreak(s, nodes, replicaNum, st) ==
    IF Len(st.orderHosts) < replicaNum /\ Len(nodes) > 0
    THEN UNION {
        LET node == nodes[index + 1]
            rest == StrawRemove(nodes, index)
        IN IF ~canAllocPartition(node, s.nodeType)
           THEN StrawPickNoBreak(s, rest, replicaNum, st)
           ELSE StrawPickNoBreak(s, rest, replicaNum,
                          [st EXCEPT !.orderHosts = Append(@, node.Addr),
                                     !.peers = Append(@, Peer(node)),
                                     !.charged = Append(@, node.ID)])
        : index \in {selectOneNode(s, nodes, draws) : draws \in [1..Len(nodes) -> RandDraws]}}
    ELSE {st}

\* the loop of Select: every final loop state some sequence of draws leads to
RECURSIVE StrawPick(_, _, _, _)
StrawPick(s, nodes, replicaNum, st) ==
    IF Len(st.orderHosts) < replicaNum /\ ~(Len(nodes) + Len(st.orderHosts) < replicaNum)
    THEN UNION {
        LET node == nodes[index + 1]
            rest == StrawRemove(nodes, index)
        IN IF ~canAllocPartition(node, s.nodeType)
           THEN StrawPick(s, rest, replicaNum, st)
           ELSE StrawPick(s, rest, replicaNum,
                          [st EXCEPT !.orderHosts = Append(@, node.Addr),
                                     !.peers = Append(@, Peer(node)),
                                     !.charged = Append(@, node.ID)])
        : index \in {selectOneNode(s, nodes, draws) : draws \in [1..Len(nodes) -> RandDraws]}}
    ELSE {st}

\* StrawNodeSelector.Select, for one Range order of the node map
StrawSelect(s, ns, excludeHosts, replicaNum, iter) ==
    LET nodes == SelectSeq(iter, LAMBDA node : ~contains(excludeHosts, node.Addr))
    IN UNION {
        IF Len(st.orderHosts) < replicaNum
        THEN {Result(<<>>, st.peers, ErrNoEnoughWritableHosts, s,
                     st.charged, st.orderHosts, 0)}
        ELSE Reshuffled(Result(<<>>, st.peers, ErrNil, s, st.charged, st.orderHosts, 0))
        : st \in StrawPick(s, nodes, replicaNum, PickState0)}

\* ------------------------------------------------------------ construction and dispatch
\* faulty variant (mutation analysis of C18): the default branch builds RoundRobin
NewNodeSelectorDefaultRoundRobin(name, nodeType) ==
    CASE name = RoundRobinNodeSelectorName -> NewRoundRobinNodeSelector(nodeType)
      [] name = CarryWeightNodeSelectorName -> NewCarryWeightNodeSelector(nodeType)
      [] name = AvailableSpaceFirstNodeSelectorName -> NewAvailableSpaceFirstNodeSelector(nodeType)
      [] name = StrawNodeSelectorName -> NewStrawNodeSelector(nodeType)
      [] OTHER -> NewRoundRobinNodeSelector(nodeType)

NewNodeSelector(name, nodeType) ==
    CASE name = RoundRobinNodeSelectorName -> NewRoundRobinNodeSelector(nodeType)
      [] name = CarryWeightNodeSelectorName -> NewCarryWeightNodeSelector(nodeType)
      [] name = AvailableSpaceFirstNodeSelectorName -> NewAvailableSpaceFirstNodeSelector(nodeType)
      [] name = StrawNodeSelectorName -> NewStrawNodeSelector(nodeType)
      [] OTHER -> NewCarryWeightNodeSelector(nodeType)

GetName(s) == s.name

\* NodeSelector.Select: every result the call can produce, over the Range
\* orders of the node map, the outcomes of the sorts, the draws and the reshuffle
Select(s, ns, excludeHosts, replicaNum) ==
    UNION {
        CASE s.name = RoundRobinNodeSelectorName ->
                 RoundRobinSelect(s, ns, excludeHosts, replicaNum, iter)
          [] s.name = AvailableSpaceFirstNodeSelectorName ->
                 AvailableSpaceFirstSelect(s, ns, excludeHosts, replicaNum, iter)
          [] s.name = CarryWeightNodeSelectorName ->
                 CarryWeightSelect(s, ns, excludeHosts, replicaNum, iter)
          [] s.name = StrawNodeSelectorName ->
                 StrawSelect(s, ns, excludeHosts, replicaNum, iter)
        : iter \in RangeOrders(getNodes(ns, s.nodeType))}

\* ------------------------------------------------------------ state
NumThreads == 2      \* threads calling into the node set
MaxPending == 1      \* the node set is entered while fewer charges than this are pending

Threads == 1..NumThreads

VARIABLES
    dataNodes,   \* ns.dataNodes: id -> *DataNode
    metaNodes,   \* ns.metaNodes: id -> *MetaNode
    pending,     \* resource type -> id -> the node's pending counter
    s,           \* a selector on its own, called directly
    ret,         \* the call on s that has returned and whose result the caller holds
    dataNodeDiskSelector,     \* ns.dataNodeDiskSelector
    metaNodeMemorySelector,   \* ns.metaNodeMemorySelector
    metaNodeRocksdbSelector,  \* ns.metaNodeRocksdbSelector
    nodeSelectLock,           \* ns.nodeSelectLock: the thread holding it, or 0
    dataNodeSelectorLock,     \* ns.dataNodeSelectorLock: [writer, readers]
    metaNodeSelectorLock,     \* ns.metaNodeSelectorLock: [writer, readers]
    threads,     \* thread -> where it is in getAvail{Data,Meta}NodeHosts, and its locals
    curIndex,        \* startSchedule: the ApplyID of the last snapshot stored
    scheduleState,   \* startSchedule: StateStopped or StateRunning
    lastCursor,      \* startSchedule: the cursor last submitted
    timer,           \* startSchedule: TRUE while the persist timer is armed
    msgs,            \* the scheduler goroutine's batch of store messages
    readyChan,       \* the number of tokens in readyChan (capacity 1)
    schedulePc,      \* where the scheduler goroutine is
    dumps,           \* the dumpFunc goroutines in flight: position and message of each
    storeChan,       \* mp.storeChan: the messages in the channel
    stopC,           \* mp.stopC: TRUE once closed
    issued,          \* the number of snapshots handed to the partition so far
    closed,          \* snapshot -> the number of Close() calls on it
    stored,          \* the ApplyIDs of the snapshots mp.store has stored
    failed,          \* the snapshots mp.store has failed to store
    truncates        \* the calls of raftPartition.Truncate: the index, and the ApplyID just stored

fleetVars == <<dataNodes, metaNodes>>
unitVars == <<s, ret>>
selectorVars == <<dataNodeDiskSelector, metaNodeMemorySelector, metaNodeRocksdbSelector>>
lockVars == <<nodeSelectLock, dataNodeSelectorLock, metaNodeSelectorLock>>
coordVars == <<selectorVars, lockVars, threads>>
scheduleVars == <<curIndex, scheduleState, lastCursor, timer, msgs, readyChan, schedulePc, dumps>>
partitionVars == <<storeChan, stopC, issued, closed, stored, failed, truncates>>
schedVars == <<scheduleVars, partitionVars>>
selectVars == <<fleetVars, pending, unitVars, coordVars>>
vars == <<selectVars, schedVars>>

NoCall == [called |-> FALSE]
NoPending == [t \in NodeResourceType |-> [id \in NodeIds |-> 0]]
Unlocked == [writer |-> 0, readers |-> {}]
Idle == [pc |-> "idle"]

\* the names a selector is configured with; the last one is not a policy
SelectorNames ==
    {RoundRobinNodeSelectorName, CarryWeightNodeSelectorName,
     AvailableSpaceFirstNodeSelectorName, StrawNodeSelectorName, "Unknown"}

\* the excludeHosts lists the calls are made with
ExcludeLists == {<<>>, <<AddrTable[1]>>, <<AddrTable[3], AddrTable[2]>>}

NodeSet == [dataNodes |-> dataNodes, metaNodes |-> metaNodes]

\* startSchedule(curIndex) up to the start of the scheduler goroutine: the
\* persist timer is created stopped, the state is Stopped, the batch and
\* readyChan are empty and no dumpFunc runs. The partition has been handed
\* no snapshot yet.
startSchedule(idx) ==
    /\ curIndex = idx
    /\ scheduleState = StateStopped
    /\ lastCursor = 0
    /\ timer = FALSE
    /\ msgs = <<>>
    /\ readyChan = 0
    /\ schedulePc = "for"
    /\ dumps = {}
    /\ storeChan = <<>>
    /\ stopC = FALSE
    /\ issued = 0
    /\ closed = [id \in 1..MaxSnaps |-> 0]
    /\ stored = {}
    /\ failed = {}
    /\ truncates = {}

\* a node set as newNodeSet leaves it, with the selectors of one policy
InitNodeSet(name) ==
    /\ dataNodeDiskSelector = NewNodeSelector(name, DataNodeDisk)
    /\ metaNodeMemorySelector = NewNodeSelector(name, MetaNodeMemory)
    /\ metaNodeRocksdbSelector = NewNodeSelector(name, MetaNodeRocksdb)
    /\ nodeSelectLock = 0
    /\ dataNodeSelectorLock = Unlocked
    /\ metaNodeSelectorLock = Unlocked
    /\ threads = [t \in Threads |-> Idle]

\* ------------------------------------------------------------ a selector called directly
\* the node set is empty and the selector fresh
Init ==
    /\ dataNodes = <<>>
    /\ metaNodes = <<>>
    /\ s \in {NewNodeSelector(name, t) : name \in SelectorNames, t \in NodeResourceType}
    /\ pending = NoPending
    /\ ret = NoCall
    /\ InitNodeSet(DefaultNodeSelectorName)
    /\ startSchedule(0)

Put(nodes, id, node) ==
    [i \in (DOMAIN nodes) \cup {id} |-> IF i = id THEN node ELSE nodes[i]]

\* a data node joins the node set; ids are handed out in increasing order.
\* Only the map the selector reads is populated.
AddDataNode ==
    /\ ret = NoCall
    /\ s.nodeType = DataNodeDisk
    /\ Cardinality(DOMAIN dataNodes) < MaxNodes
    /\ \E st \in DataNodeStates :
          dataNodes' = Put(dataNodes, Cardinality(DOMAIN dataNodes) + 1,
                           NewDataNode(Cardinality(DOMAIN dataNodes) + 1, st))
    /\ UNCHANGED <<schedVars, metaNodes, pending, unitVars, coordVars>>

\* a heartbeat changes what canAlloc / canAllocDp answer for a data node
SetDataNodeState ==
    /\ ret = NoCall
    /\ \E id \in DOMAIN dataNodes : \E st \in DataNodeStates :
          /\ dataNodes[id] # NewDataNode(id, st)
          /\ dataNodes' = Put(dataNodes, id, NewDataNode(id, st))
    /\ UNCHANGED <<schedVars, metaNodes, pending, unitVars, coordVars>>

AddMetaNode ==
    /\ ret = NoCall
    /\ s.nodeType # DataNodeDisk
    /\ Cardinality(DOMAIN metaNodes) < MaxNodes
    /\ \E st \in MetaNodeStates :
          metaNodes' = Put(metaNodes, Cardinality(DOMAIN metaNodes) + 1,
                           NewMetaNode(Cardinality(DOMAIN metaNodes) + 1, st))
    /\ UNCHANGED <<schedVars, dataNodes, pending, unitVars, coordVars>>

\* a heartbeat changes what isWritable answers for a meta node
SetMetaNodeState ==
    /\ ret = NoCall
    /\ \E id \in DOMAIN metaNodes : \E st \in MetaNodeStates :
          /\ metaNodes[id] # NewMetaNode(id, st)
          /\ metaNodes' = Put(metaNodes, id, NewMetaNode(id, st))
    /\ UNCHANGED <<schedVars, dataNodes, pending, unitVars, coordVars>>

RECURSIVE Charge(_, _, _)
\* the pending counters after SelectNodeForWrite on each id of charged, in order
Charge(pend, charged, resource) ==
    IF charged = <<>> THEN pend
    ELSE Charge(SelectNodeForWrite(pend, Head(charged), resource), Tail(charged), resource)

\* what the caller holds when the call is over, with the call's arguments and
\* the selector and counters it started from
Returned(r, before, pendingBefore, excludeHosts, replicaNum) ==
    [called |-> TRUE, excludeHosts |-> excludeHosts, replicaNum |-> replicaNum,
     newHosts |-> r.newHosts, peers |-> r.peers, err |-> r.err, returns |-> r.returns,
     charged |-> r.charged, orderHosts |-> r.orderHosts, nodeIndex |-> r.nodeIndex,
     before |-> before, pendingBefore |-> pendingBefore]

\* s.Select(ns, excludeHosts, replicaNum)
CallSelect ==
    /\ ret = NoCall
    /\ s.index <= MaxIndex
    /\ \E excludeHosts \in ExcludeLists : \E replicaNum \in 0..MaxReplicaNum :
          \E r \in Select(s, NodeSet, excludeHosts, replicaNum) :
             /\ s' = r.s
             /\ pending' = Charge(pending, r.charged, s.nodeType)
             /\ ret' = Returned(r, s, pending, excludeHosts, replicaNum)
    /\ UNCHANGED <<schedVars, fleetVars, coordVars>>

\* the caller takes the result; the pending counters are settled outside the
\* selectors, by the partition-creation and heartbeat paths
Return ==
    /\ ret # NoCall
    /\ ret.returns
    /\ ret' = NoCall
    /\ pending' = NoPending
    /\ UNCHANGED <<schedVars, fleetVars, s, coordVars>>

Next ==
    \/ AddDataNode
    \/ SetDataNodeState
    \/ AddMetaNode
    \/ SetMetaNodeState
    \/ CallSelect
    \/ Return

Spec == Init /\ [][Next]_vars

\* ------------------------------------------------------------ the node-set coordinator
\* the writability of the nodes of the node set the threads call into
CoordDataState(id) == IF id = 3 THEN "offline" ELSE "ok"
CoordMetaState(id) == IF id = 3 THEN "memOnly" ELSE "both"

\* the arguments the threads call with
CoordExcludeLists == {<<>>, <<AddrTable[1]>>}
CoordReplicaNums == 1..2

InitCoord ==
    /\ dataNodes = [id \in NodeIds |-> NewDataNode(id, CoordDataState(id))]
    /\ metaNodes = [id \in NodeIds |-> NewMetaNode(id, CoordMetaState(id))]
    /\ pending = NoPending
    /\ s = NewNodeSelector(DefaultNodeSelectorName, DataNodeDisk)
    /\ ret = NoCall
    /\ \E name \in SelectorNames : InitNodeSet(name)
    /\ startSchedule(0)

RECURSIVE Sum(_, _)
Sum(f, S) == IF S = {} THEN 0
             ELSE LET x == CHOOSE y \in S : TRUE IN f[x] + Sum(f, S \ {x})

PendingTotal == Sum([t \in NodeResourceType |-> Sum(pending[t], NodeIds)], NodeResourceType)

\* faulty variant (mutation analysis of C28): every meta call goes to the memory selector
SelectorOfMemoryOnly(th) ==
    IF th.kind = "data" THEN dataNodeDiskSelector ELSE metaNodeMemorySelector

\* the selector a thread delegates to
SelectorOf(th) ==
    IF th.kind = "data" THEN dataNodeDiskSelector
    ELSE IF th.storeMode = StoreModeRocksDb THEN metaNodeRocksdbSelector
    ELSE metaNodeMemorySelector

\* a thread calls getAvailDataNodeHosts or getAvailMetaNodeHosts(storeMode)
Begin(t) ==
    /\ threads[t].pc = "idle"
    /\ PendingTotal < MaxPending
    /\ \E kind \in {"data", "meta"} : \E storeMode \in {StoreModeMem, StoreModeRocksDb} :
          /\ kind = "data" => storeMode = StoreModeMem
          /\ threads' = [threads EXCEPT ![t] =
                            [pc |-> "nodeSelectLock", kind |-> kind, storeMode |-> storeMode]]
    /\ UNCHANGED <<schedVars, fleetVars, pending, unitVars, selectorVars, lockVars>>

\* faulty variant (mutation analysis of C7): the lock is taken without waiting for it
LockNodeSelectNoWait(t) ==
    /\ threads[t].pc = "nodeSelectLock"
    /\ nodeSelectLock' = t
    /\ threads' = [threads EXCEPT ![t].pc = "selectorLock"]
    /\ UNCHANGED <<schedVars, fleetVars, pending, unitVars, selectorVars,
                   dataNodeSelectorLock, metaNodeSelectorLock>>

\* ns.nodeSelectLock.Lock()
LockNodeSelect(t) ==
    /\ threads[t].pc = "nodeSelectLock"
    /\ nodeSelectLock = 0
    /\ nodeSelectLock' = t
    /\ threads' = [threads EXCEPT ![t].pc = "selectorLock"]
    /\ UNCHANGED <<schedVars, fleetVars, pending, unitVars, selectorVars,
                   dataNodeSelectorLock, metaNodeSelectorLock>>

\* sync.RWMutex
Lock(l, t) == [l EXCEPT !.writer = t]
CanLock(l) == l.writer = 0 /\ l.readers = {}
RLock(l, t) == [l EXCEPT !.readers = @ \cup {t}]
CanRLock(l) == l.writer = 0
Unlock(l, t) == [l EXCEPT !.writer = 0]
RUnlock(l, t) == [l EXCEPT !.readers = @ \ {t}]

\* ns.dataNodeSelectorLock.Lock() in getAvailDataNodeHosts,
\* ns.metaNodeSelectorLock.RLock() in getAvailMetaNodeHosts
LockSelector(t) ==
    /\ threads[t].pc = "selectorLock"
    /\ IF threads[t].kind = "data"
       THEN /\ CanLock(dataNodeSelectorLock)
            /\ dataNodeSelectorLock' = Lock(dataNodeSelectorLock, t)
            /\ UNCHANGED metaNodeSelectorLock
       ELSE /\ CanRLock(metaNodeSelectorLock)
            /\ metaNodeSelectorLock' = RLock(metaNodeSelectorLock, t)
            /\ UNCHANGED dataNodeSelectorLock
    /\ threads' = [threads EXCEPT ![t].pc = "select"]
    /\ UNCHANGED <<schedVars, fleetVars, pending, unitVars, selectorVars, nodeSelectLock>>

\* the thread enters Select on the selector it delegates to
EnterSelect(t) ==
    /\ threads[t].pc = "select"
    /\ threads' = [threads EXCEPT ![t] =
                      [pc |-> "selecting", kind |-> @.kind, storeMode |-> @.storeMode,
                       entry |-> SelectorOf(threads[t])]]
    /\ UNCHANGED <<schedVars, fleetVars, pending, unitVars, selectorVars, lockVars>>

\* Select runs to its end: the selector's state and the nodes' counters are written
FinishSelect(t) ==
    /\ threads[t].pc = "selecting"
    /\ SelectorOf(threads[t]).index <= MaxIndex
    /\ \E excludeHosts \in CoordExcludeLists : \E replicaNum \in CoordReplicaNums :
          \E r \in Select(SelectorOf(threads[t]), NodeSet, excludeHosts, replicaNum) :
             /\ r.returns
             /\ IF threads[t].kind = "data"
                THEN /\ dataNodeDiskSelector' = r.s
                     /\ UNCHANGED <<metaNodeMemorySelector, metaNodeRocksdbSelector>>
                ELSE IF threads[t].storeMode = StoreModeRocksDb
                THEN /\ metaNodeRocksdbSelector' = r.s
                     /\ UNCHANGED <<dataNodeDiskSelector, metaNodeMemorySelector>>
                ELSE /\ metaNodeMemorySelector' = r.s
                     /\ UNCHANGED <<dataNodeDiskSelector, metaNodeRocksdbSelector>>
             /\ pending' = Charge(pending, r.charged, SelectorOf(threads[t]).nodeType)
             /\ threads' = [threads EXCEPT ![t] =
                   [pc |-> "unlockSelector", kind |-> @.kind, storeMode |-> @.storeMode,
                    res |-> Returned(r, SelectorOf(threads[t]), pending,
                                     excludeHosts, replicaNum)]]
    /\ UNCHANGED <<schedVars, fleetVars, unitVars, lockVars>>

\* the deferred Unlock / RUnlock of the selector lock
UnlockSelector(t) ==
    /\ threads[t].pc = "unlockSelector"
    /\ IF threads[t].kind = "data"
       THEN /\ dataNodeSelectorLock' = Unlock(dataNodeSelectorLock, t)
            /\ UNCHANGED metaNodeSelectorLock
       ELSE /\ metaNodeSelectorLock' = RUnlock(metaNodeSelectorLock, t)
            /\ UNCHANGED dataNodeSelectorLock
    /\ threads' = [threads EXCEPT ![t].pc = "unlockNodeSelect"]
    /\ UNCHANGED <<schedVars, fleetVars, pending, unitVars, selectorVars, nodeSelectLock>>

\* the deferred ns.nodeSelectLock.Unlock(); the call returns to its caller
UnlockNodeSelect(t) ==
    /\ threads[t].pc = "unlockNodeSelect"
    /\ nodeSelectLock' = 0
    /\ threads' = [threads EXCEPT ![t] = Idle]
    /\ UNCHANGED <<schedVars, fleetVars, pending, unitVars, selectorVars,
                   dataNodeSelectorLock, metaNodeSelectorLock>>

NextCoord ==
    \/ \E t \in Threads : Begin(t)
    \/ \E t \in Threads : LockNodeSelect(t)
    \/ \E t \in Threads : LockSelector(t)
    \/ \E t \in Threads : EnterSelect(t)
    \/ \E t \in Threads : FinishSelect(t)
    \/ \E t \in Threads : UnlockSelector(t)
    \/ \E t \in Threads : UnlockNodeSelect(t)

SpecCoord == InitCoord /\ [][NextCoord]_vars

\* ------------------------------------------------------------ policy changes and readers
\* Besides the threads that select, an admin thread replaces the selectors of
\* a kind under that kind's selector lock held for writing, and a thread reads
\* the installed selector under the lock held for reading.
ReplaceNames == {RoundRobinNodeSelectorName}
Kinds == {"data", "meta"}

SelectorLockOf(kind) == IF kind = "data" THEN dataNodeSelectorLock ELSE metaNodeSelectorLock

\* a thread sets out to install the policy called name for a kind
BeginReplace(t) ==
    /\ threads[t].pc = "idle"
    /\ \E kind \in Kinds : \E name \in ReplaceNames :
          threads' = [threads EXCEPT ![t] =
                         [pc |-> "replaceLock", kind |-> kind, name |-> name]]
    /\ UNCHANGED <<schedVars, fleetVars, pending, unitVars, selectorVars, lockVars>>

\* faulty variant (mutation analysis of C27): the lock is taken without waiting for it
LockReplaceNoWait(t) ==
    /\ threads[t].pc = "replaceLock"
    /\ IF threads[t].kind = "data"
       THEN /\ dataNodeSelectorLock' = Lock(dataNodeSelectorLock, t)
            /\ UNCHANGED metaNodeSelectorLock
       ELSE /\ metaNodeSelectorLock' = Lock(metaNodeSelectorLock, t)
            /\ UNCHANGED dataNodeSelectorLock
    /\ threads' = [threads EXCEPT ![t].pc = "replace"]
    /\ UNCHANGED <<schedVars, fleetVars, pending, unitVars, selectorVars, nodeSelectLock>>

\* the kind's selector lock is taken for writing
LockReplace(t) ==
    /\ threads[t].pc = "replaceLock"
    /\ CanLock(SelectorLockOf(threads[t].kind))
    /\ IF threads[t].kind = "data"
       THEN /\ dataNodeSelectorLock' = Lock(dataNodeSelectorLock, t)
            /\ UNCHANGED metaNodeSelectorLock
       ELSE /\ metaNodeSelectorLock' = Lock(metaNodeSelectorLock, t)
            /\ UNCHANGED dataNodeSelectorLock
    /\ threads' = [threads EXCEPT ![t].pc = "replace"]
    /\ UNCHANGED <<schedVars, fleetVars, pending, unitVars, selectorVars, nodeSelectLock>>

\* fresh selectors of the new policy are installed for the kind
Replace(t) ==
    /\ threads[t].pc = "replace"
    /\ IF threads[t].kind = "data"
       THEN /\ dataNodeDiskSelector' = NewNodeSelector(threads[t].name, DataNodeDisk)
            /\ UNCHANGED <<metaNodeMemorySelector, metaNodeRocksdbSelector>>
       ELSE /\ metaNodeMemorySelector' = NewNodeSelector(threads[t].name, MetaNodeMemory)
            /\ metaNodeRocksdbSelector' = NewNodeSelector(threads[t].name, MetaNodeRocksdb)
            /\ UNCHANGED dataNodeDiskSelector
    /\ threads' = [threads EXCEPT ![t].pc = "unlockReplace"]
    /\ UNCHANGED <<schedVars, fleetVars, pending, unitVars, lockVars>>

UnlockReplace(t) ==
    /\ threads[t].pc = "unlockReplace"
    /\ IF threads[t].kind = "data"
       THEN /\ dataNodeSelectorLock' = Unlock(dataNodeSelectorLock, t)
            /\ UNCHANGED metaNodeSelectorLock
       ELSE /\ metaNodeSelectorLock' = Unlock(metaNodeSelectorLock, t)
            /\ UNCHANGED dataNodeSelectorLock
    /\ threads' = [threads EXCEPT ![t] = Idle]
    /\ UNCHANGED <<schedVars, fleetVars, pending, unitVars, selectorVars, nodeSelectLock>>

\* a thread sets out to read the selector installed for a kind
BeginRead(t) ==
    /\ threads[t].pc = "idle"
    /\ \E kind \in Kinds :
          threads' = [threads EXCEPT ![t] = [pc |-> "readLock", kind |-> kind]]
    /\ UNCHANGED <<schedVars, fleetVars, pending, unitVars, selectorVars, lockVars>>

\* the kind's selector lock is taken for reading
LockRead(t) ==
    /\ threads[t].pc = "readLock"
    /\ CanRLock(SelectorLockOf(threads[t].kind))
    /\ IF threads[t].kind = "data"
       THEN /\ dataNodeSelectorLock' = RLock(dataNodeSelectorLock, t)
            /\ UNCHANGED metaNodeSelectorLock
       ELSE /\ metaNodeSelectorLock' = RLock(metaNodeSelectorLock, t)
            /\ UNCHANGED dataNodeSelectorLock
    /\ threads' = [threads EXCEPT ![t].pc = "reading"]
    /\ UNCHANGED <<schedVars, fleetVars, pending, unitVars, selectorVars, nodeSelectLock>>

UnlockRead(t) ==
    /\ threads[t].pc = "reading"
    /\ IF threads[t].kind = "data"
       THEN /\ dataNodeSelectorLock' = RUnlock(dataNodeSelectorLock, t)
            /\ UNCHANGED metaNodeSelectorLock
       ELSE /\ metaNodeSelectorLock' = RUnlock(metaNodeSelectorLock, t)
            /\ UNCHANGED dataNodeSelectorLock
    /\ threads' = [threads EXCEPT ![t] = Idle]
    /\ UNCHANGED <<schedVars, fleetVars, pending, unitVars, selectorVars, nodeSelectLock>>

NextSwap ==
    \/ NextCoord
    \/ \E t \in Threads : BeginReplace(t)
    \/ \E t \in Threads : LockReplace(t)
    \/ \E t \in Threads : Replace(t)
    \/ \E t \in Threads : UnlockReplace(t)
    \/ \E t \in Threads : BeginRead(t)
    \/ \E t \in Threads : LockRead(t)
    \/ \E t \in Threads : UnlockRead(t)

\* the node set starts with the selectors of the default policy
InitSwap ==
    /\ InitCoord
    /\ GetName(dataNodeDiskSelector) = DefaultNodeSelectorName

SpecSwap == InitSwap /\ [][NextSwap]_vars

\* ------------------------------------------------------------ one request, repeated
\* A caller issues the same request again and again on a node set that does
\* not change: the selector alone carries state from one call to the next.
RepeatNames == {RoundRobinNodeSelectorName, CarryWeightNodeSelectorName}
RepeatExcludeLists == {<<>>, <<AddrTable[1]>>}

\* a node set of 1..MaxNodes nodes, each in some writability state
InitRepeat ==
    /\ s \in {NewNodeSelector(name, t) : name \in RepeatNames, t \in NodeResourceType}
    /\ IF s.nodeType = DataNodeDisk
       THEN /\ metaNodes = <<>>
            /\ \E n \in 1..MaxNodes : \E st \in [1..n -> DataNodeStates] :
                  dataNodes = [id \in 1..n |-> NewDataNode(id, st[id])]
       ELSE /\ dataNodes = <<>>
            /\ \E n \in 1..MaxNodes : \E st \in [1..n -> MetaNodeStates] :
                  metaNodes = [id \in 1..n |-> NewMetaNode(id, st[id])]
    /\ pending = NoPending
    /\ ret = NoCall
    /\ InitNodeSet(DefaultNodeSelectorName)
    /\ startSchedule(0)

\* what the caller remembers of the call before the last one
Summary(r, after) ==
    IF r.called
    THEN [called |-> TRUE, err |-> r.err, newHosts |-> r.newHosts,
          charged |-> r.charged, after |-> after]
    ELSE NoCall

WithPrev(r, prev) ==
    [f \in (DOMAIN r) \cup {"prev"} |-> IF f = "prev" THEN prev ELSE r[f]]

\* the caller takes the result of its last call, the counters are settled, and
\* it calls s.Select again with the arguments of its first call
RepeatSelect ==
    /\ ret.called => ret.returns
    /\ s.index <= MaxIndex
    /\ \E excludeHosts \in RepeatExcludeLists : \E replicaNum \in 1..MaxReplicaNum :
          /\ ret.called => (excludeHosts = ret.excludeHosts /\ replicaNum = ret.replicaNum)
          /\ \E r \in Select(s, NodeSet, excludeHosts, replicaNum) :
                /\ s' = r.s
                /\ pending' = Charge(NoPending, r.charged, s.nodeType)
                /\ ret' = WithPrev(Returned(r, s, NoPending, excludeHosts, replicaNum),
                                   Summary(ret, s))
    /\ UNCHANGED <<schedVars, fleetVars, coordVars>>

NextRepeat == RepeatSelect

SpecRepeat == InitRepeat /\ [][NextRepeat]_vars

\* the caller never stops calling
SpecRepeatFair == SpecRepeat /\ WF_vars(RepeatSelect)

\* ------------------------------------------------------------ the proportionality scenario
\* Two data nodes of totals {1000, 500} and free space {500, 250}, always
\* writable; selection does not change their capacities.  One CarryWeight
\* selector is asked for one host at a time, nothing excluded.
MaxCalls == 1000     \* calls are issued while fewer than MaxCalls have been made

S4Total == <<1000, 500>>
S4Free == <<500, 250>>

S4DataNode(id) ==
    [ID |-> id, Addr |-> AddrTable[id],
     Total |-> S4Total[id], AvailableSpace |-> S4Free[id],
     ToBeOffline |-> FALSE, OverSold |-> FALSE]

InitS4 ==
    /\ dataNodes = [id \in 1..Len(S4Total) |-> S4DataNode(id)]
    /\ metaNodes = <<>>
    /\ s = NewNodeSelector(CarryWeightNodeSelectorName, DataNodeDisk)
    /\ pending = NoPending
    /\ ret = NoCall
    /\ InitNodeSet(DefaultNodeSelectorName)
    /\ startSchedule(0)

\* s.Select(ns, nil, 1); the pending counters count the picks of each node
S4Select ==
    /\ ret.called => ret.returns
    /\ PendingTotal < MaxCalls
    /\ \E r \in Select(s, NodeSet, <<>>, 1) :
          /\ s' = r.s
          /\ pending' = Charge(pending, r.charged, s.nodeType)
          /\ ret' = Returned(r, s, pending, <<>>, 1)
    /\ UNCHANGED <<schedVars, fleetVars, coordVars>>

NextS4 == S4Select

SpecS4 == InitS4 /\ [][NextS4]_vars

\* ------------------------------------------------------------ RoundRobin on a writable node set
\* A fresh RoundRobin selector serves calls with varying replicaNum on a node
\* set that does not change and in which every node is writable; the pending
\* counters count how often each node has been selected.
MaxPicks == 12       \* calls are issued while fewer than MaxPicks nodes have been picked

InitFair ==
    /\ s \in {NewNodeSelector(RoundRobinNodeSelectorName, t) : t \in NodeResourceType}
    /\ \E n \in 1..MaxNodes :
          IF s.nodeType = DataNodeDisk
          THEN /\ metaNodes = <<>>
               /\ dataNodes = [id \in 1..n |-> NewDataNode(id, "ok")]
          ELSE /\ dataNodes = <<>>
               /\ metaNodes = [id \in 1..n |-> NewMetaNode(id, "both")]
    /\ pending = NoPending
    /\ ret = NoCall
    /\ InitNodeSet(DefaultNodeSelectorName)
    /\ startSchedule(0)

\* s.Select(ns, nil, replicaNum) with 1 <= replicaNum <= |S|
FairSelect ==
    /\ ret.called => ret.returns
    /\ PendingTotal < MaxPicks
    /\ \E replicaNum \in 1..MaxReplicaNum :
          /\ replicaNum <= Cardinality(DOMAIN getNodes(NodeSet, s.nodeType))
          /\ \E r \in Select(s, NodeSet, <<>>, replicaNum) :
                /\ s' = r.s
                /\ pending' = Charge(pending, r.charged, s.nodeType)
                /\ ret' = Returned(r, s, pending, <<>>, replicaNum)
    /\ UNCHANGED <<schedVars, fleetVars, coordVars>>

NextFair == FairSelect

SpecFair == InitFair /\ [][NextFair]_vars

\* ------------------------------------------------------------ the store scheduler
\* mp.startSchedule: the scheduler goroutine, the dumpFunc goroutines it
\* starts, and the partition around them. A store message carries its command
\* and its snapshot; the snapshot is its identity and its ApplyID.
NoMsg == [command |-> "nil", id |-> 0, applyID |-> 0]

NewStoreMsg(command, id, applyID) == [command |-> command, id |-> id, applyID |-> applyID]

CompareAndSwapAlways(state, old, new) == [swapped |-> TRUE, state |-> new]

\* atomic.CompareAndSwapUint32(&scheduleState, old, new)
CompareAndSwap(state, old, new) ==
    IF state = old THEN [swapped |-> TRUE, state |-> new]
    ELSE [swapped |-> FALSE, state |-> state]

VisitMsgNoFilter(acc, msg) ==
    IF acc.maxIdx < msg.applyID
    THEN [maxIdx |-> msg.applyID,
          maxMsg |-> msg,
          closes |-> IF acc.maxMsg # NoMsg THEN Append(acc.closes, acc.maxMsg.id)
                     ELSE acc.closes]
    ELSE [acc EXCEPT !.closes = Append(@, msg.id)]

VisitMsgKeepDisplaced(acc, msg) ==
    IF curIndex >= msg.applyID
    THEN [acc EXCEPT !.closes = Append(@, msg.id)]
    ELSE IF acc.maxIdx < msg.applyID
    THEN [maxIdx |-> msg.applyID, maxMsg |-> msg, closes |-> acc.closes]
    ELSE [acc EXCEPT !.closes = Append(@, msg.id)]

\* one round of the loop over the batch: acc holds maxIdx, maxMsg and the
\* snapshots closed so far, in the order of the Close() calls
VisitMsg(acc, msg) ==
    IF curIndex >= msg.applyID
    THEN [acc EXCEPT !.closes = Append(@, msg.id)]
    ELSE IF acc.maxIdx < msg.applyID
    THEN [maxIdx |-> msg.applyID,
          maxMsg |-> msg,
          closes |-> IF acc.maxMsg # NoMsg THEN Append(acc.closes, acc.maxMsg.id)
                     ELSE acc.closes]
    ELSE [acc EXCEPT !.closes = Append(@, msg.id)]

RECURSIVE RangeMsgs(_, _)
RangeMsgs(acc, ms) ==
    IF ms = <<>> THEN acc ELSE RangeMsgs(VisitMsg(acc, Head(ms)), Tail(ms))

\* the Close() calls counted on their snapshots
Close(cl, closes) ==
    [id \in DOMAIN cl |-> cl[id] + Cardinality({i \in DOMAIN closes : closes[i] = id})]

\* a partition whose scheduler has just been started; no selector is in use
InitSchedule ==
    /\ dataNodes = <<>>
    /\ metaNodes = <<>>
    /\ s = NewNodeSelector(DefaultNodeSelectorName, DataNodeDisk)
    /\ pending = NoPending
    /\ ret = NoCall
    /\ InitNodeSet(DefaultNodeSelectorName)
    /\ \E idx \in 0..1 : startSchedule(idx)

\* the top of the scheduler's loop: with a batch at hand it claims the
\* state and posts the ready token
ScheduleLoop ==
    /\ schedulePc = "for"
    /\ LET cas == CompareAndSwap(scheduleState, StateStopped, StateRunning) IN
       IF Len(msgs) > 0 /\ cas.swapped
       THEN /\ readyChan < 1
            /\ scheduleState' = cas.state
            /\ readyChan' = readyChan + 1
       ELSE UNCHANGED <<scheduleState, readyChan>>
    /\ schedulePc' = "select"
    /\ UNCHANGED <<curIndex, lastCursor, timer, msgs, dumps, partitionVars, selectVars>>

\* case <-stopC
ScheduleStop ==
    /\ schedulePc = "select"
    /\ stopC
    /\ timer' = FALSE
    /\ schedulePc' = "return"
    /\ UNCHANGED <<curIndex, scheduleState, lastCursor, msgs, readyChan, dumps,
                   partitionVars, selectVars>>

\* case <-readyChan: the batch is reduced to its newest snapshot, which a
\* dumpFunc goroutine is started for; every other snapshot is closed
ScheduleReady ==
    /\ schedulePc = "select"
    /\ readyChan > 0
    /\ readyChan' = readyChan - 1
    /\ LET acc == RangeMsgs([maxIdx |-> 0, maxMsg |-> NoMsg, closes |-> <<>>], msgs) IN
       /\ closed' = Close(closed, acc.closes)
       /\ IF acc.maxMsg # NoMsg
          THEN /\ dumps' = dumps \cup {[pc |-> "store", msg |-> acc.maxMsg]}
               /\ UNCHANGED scheduleState
          ELSE /\ scheduleState' = StateStopped
               /\ UNCHANGED dumps
    /\ msgs' = <<>>
    /\ schedulePc' = "for"
    /\ UNCHANGED <<curIndex, lastCursor, timer, storeChan, stopC, issued, stored, failed,
                   truncates, selectVars>>

\* case msg := <-mp.storeChan
ScheduleReceive ==
    /\ schedulePc = "select"
    /\ storeChan # <<>>
    /\ LET msg == Head(storeChan) IN
       /\ timer' = CASE msg.command = startStoreTick -> TRUE
                     [] msg.command = stopStoreTick -> FALSE
                     [] OTHER -> timer
       /\ msgs' = IF msg.command = opFSMStoreTick THEN Append(msgs, msg) ELSE msgs
    /\ storeChan' = Tail(storeChan)
    /\ schedulePc' = "for"
    /\ UNCHANGED <<curIndex, scheduleState, lastCursor, readyChan, dumps, stopC, issued,
                   closed, stored, failed, truncates, selectVars>>

\* case <-timer.C: the timer has fired and is re-armed unless a store tick
\* was submitted; applyID is mp.applyID, err the outcome of mp.submit
ScheduleTimer ==
    /\ schedulePc = "select"
    /\ timer
    /\ \E applyID \in 0..MaxApplyID, err \in BOOLEAN, isLeader \in BOOLEAN :
          timer' = IF applyID <= curIndex THEN TRUE ELSE err /\ isLeader
    /\ schedulePc' = "for"
    /\ UNCHANGED <<curIndex, scheduleState, lastCursor, msgs, readyChan, dumps,
                   partitionVars, selectVars>>

\* case <-timerCursor.C: every branch re-arms timerCursor
ScheduleTimerCursor ==
    /\ schedulePc = "select"
    /\ \E isLeader \in BOOLEAN, curCursor \in 0..MaxCursor :
          lastCursor' = IF isLeader /\ curCursor # lastCursor THEN curCursor ELSE lastCursor
    /\ schedulePc' = "for"
    /\ UNCHANGED <<curIndex, scheduleState, timer, msgs, readyChan, dumps,
                   partitionVars, selectVars>>

Moved(d, pc) == (dumps \ {d}) \cup {[d EXCEPT !.pc = pc]}

DumpStoreTruncateAlways(d) ==
    /\ d.pc = "store"
    /\ truncates' = truncates \cup {[index |-> curIndex, applyID |-> d.msg.applyID]}
    /\ \E err \in BOOLEAN :
          IF ~err
          THEN /\ curIndex' = d.msg.applyID
               /\ stored' = stored \cup {d.msg.applyID}
               /\ dumps' = Moved(d, "leader")
               /\ UNCHANGED failed
          ELSE /\ failed' = failed \cup {d.msg.id}
               /\ dumps' = Moved(d, "retry")
               /\ UNCHANGED <<curIndex, stored>>
    /\ UNCHANGED <<scheduleState, lastCursor, timer, msgs, readyChan, schedulePc,
                   storeChan, stopC, issued, closed, selectVars>>

\* dumpFunc, mp.store(msg) and what follows it: a stored snapshot truncates
\* the raft log at the old curIndex, when there is a raft partition, and
\* becomes curIndex; a failed one is to be sent again
DumpStore(d) ==
    /\ d.pc = "store"
    /\ \E err \in BOOLEAN, raftPartition \in BOOLEAN :
          IF ~err
          THEN /\ truncates' = IF raftPartition
                               THEN truncates \cup {[index |-> curIndex, applyID |-> d.msg.applyID]}
                               ELSE truncates
               /\ curIndex' = d.msg.applyID
               /\ stored' = stored \cup {d.msg.applyID}
               /\ dumps' = Moved(d, "leader")
               /\ UNCHANGED failed
          ELSE /\ failed' = failed \cup {d.msg.id}
               /\ dumps' = Moved(d, "retry")
               /\ UNCHANGED <<truncates, curIndex, stored>>
    /\ UNCHANGED <<scheduleState, lastCursor, timer, msgs, readyChan, schedulePc,
                   storeChan, stopC, issued, closed, selectVars>>

\* dumpFunc, mp.storeChan <- msg: blocks while the channel is full
DumpRetry(d) ==
    /\ d.pc = "retry"
    /\ Len(storeChan) < StoreChanCap
    /\ storeChan' = Append(storeChan, d.msg)
    /\ dumps' = Moved(d, "leader")
    /\ UNCHANGED <<curIndex, scheduleState, lastCursor, timer, msgs, readyChan, schedulePc,
                   stopC, issued, closed, stored, failed, truncates, selectVars>>

\* dumpFunc, the leader re-arms the persist timer
DumpLeader(d) ==
    /\ d.pc = "leader"
    /\ \E isLeader \in BOOLEAN : timer' = (isLeader \/ timer)
    /\ dumps' = Moved(d, "stopped")
    /\ UNCHANGED <<curIndex, scheduleState, lastCursor, msgs, readyChan, schedulePc,
                   partitionVars, selectVars>>

\* dumpFunc, atomic.StoreUint32(&scheduleState, StateStopped), and its end
DumpStopped(d) ==
    /\ d.pc = "stopped"
    /\ scheduleState' = StateStopped
    /\ dumps' = dumps \ {d}
    /\ UNCHANGED <<curIndex, lastCursor, timer, msgs, readyChan, schedulePc,
                   partitionVars, selectVars>>

\* mp.stop()
stop ==
    /\ ~stopC
    /\ stopC' = TRUE
    /\ UNCHANGED <<scheduleVars, storeChan, issued, closed, stored, failed, truncates,
                   selectVars>>

\* the partition applies a store tick: a new snapshot is sent to the scheduler
ApplyStoreTick ==
    /\ issued < MaxSnaps
    /\ Len(storeChan) < StoreChanCap
    /\ \E applyID \in 1..MaxApplyID :
          storeChan' = Append(storeChan, NewStoreMsg(opFSMStoreTick, issued + 1, applyID))
    /\ issued' = issued + 1
    /\ UNCHANGED <<scheduleVars, stopC, closed, stored, failed, truncates, selectVars>>

\* the partition starts or stops the persist timer
SendTick ==
    /\ Len(storeChan) < StoreChanCap
    /\ \E command \in {startStoreTick, stopStoreTick} :
          storeChan' = Append(storeChan, NewStoreMsg(command, 0, 0))
    /\ UNCHANGED <<scheduleVars, stopC, issued, closed, stored, failed, truncates, selectVars>>

NextSchedule ==
    \/ ScheduleLoop
    \/ ScheduleStop
    \/ ScheduleReady
    \/ ScheduleReceive
    \/ ScheduleTimer
    \/ ScheduleTimerCursor
    \/ \E d \in dumps : DumpStore(d)
    \/ \E d \in dumps : DumpRetry(d)
    \/ \E d \in dumps : DumpLeader(d)
    \/ \E d \in dumps : DumpStopped(d)
    \/ stop
    \/ ApplyStoreTick
    \/ SendTick

SpecSchedule == InitSchedule /\ [][NextSchedule]_vars

\* the goroutines keep running: a step of the scheduler goroutine or of a
\* dumpFunc that can be taken is taken, and select, which picks among its
\* ready cases at random, does not pass over a case that is ready again and
\* again; nor is a sender blocked on storeChan passed over. Nothing is
\* promised of the timers, of the arrival of messages or of stop.
SpecScheduleFair ==
    /\ InitSchedule
    /\ [][NextSchedule]_vars
    /\ WF_vars(ScheduleLoop)
    /\ SF_vars(ScheduleStop)
    /\ SF_vars(ScheduleReady)
    /\ SF_vars(ScheduleReceive)
    /\ WF_vars(\E d \in dumps : DumpStore(d))
    /\ SF_vars(\E d \in dumps : DumpRetry(d))
    /\ WF_vars(\E d \in dumps : DumpLeader(d))
    /\ WF_vars(\E d \in dumps : DumpStopped(d))

\* ------------------------------------------------------------ properties of a call on s
\* the map s reads, and the facts about it the properties are stated in
ViewNodes == IF s.nodeType = DataNodeDisk THEN dataNodes ELSE metaNodes
Elems(seq) == {seq[i] : i \in 1..Len(seq)}

\* the writability predicate of a resource type, on the node's own fields
WritableFor(node, nodeType) ==
    CASE nodeType = DataNodeDisk -> ~node.OverSold /\ ~node.ToBeOffline
      [] nodeType = MetaNodeMemory -> node.WritableMem
      [] nodeType = MetaNodeRocksdb -> node.WritableRocksdb

\* the ids of the nodes that are writable and not excluded
Eligible(excludeHosts) ==
    {id \in DOMAIN ViewNodes :
        WritableFor(ViewNodes[id], s.nodeType) /\ ViewNodes[id].Addr \notin Elems(excludeHosts)}

\* the ids of the view in ascending order
SortedIds ==
    CHOOSE p \in Perms(DOMAIN ViewNodes) : \A i \in 1..Len(p) : \A j \in i..Len(p) : p[i] <= p[j]

RetOk == ret.called /\ ret.returns /\ ret.err = ErrNil
RetFailed == ret.called /\ ret.returns /\ ret.err # ErrNil
IsRoundRobin == s.name = RoundRobinNodeSelectorName

\* C1: a Select that returns no error returns exactly replicaNum host
\* addresses, pairwise distinct and none of them in excludeHosts.
C1_DistinctHosts ==
    RetOk =>
        /\ Len(ret.newHosts) = ret.replicaNum
        /\ \A i, j \in 1..Len(ret.newHosts) : i # j => ret.newHosts[i] # ret.newHosts[j]
        /\ \A i \in 1..Len(ret.newHosts) : ret.newHosts[i] \notin Elems(ret.excludeHosts)

\* C1 witness: two hosts were returned while a writable node of the view was excluded
C1_Witness ==
    /\ RetOk
    /\ ret.replicaNum = 2
    /\ \E id \in DOMAIN ViewNodes :
          /\ WritableFor(ViewNodes[id], s.nodeType)
          /\ ViewNodes[id].Addr \in Elems(ret.excludeHosts)

\* C2: a Select that returns an error has invoked SelectNodeForWrite on no
\* node: every pending counter has the value it had before the call.
C2_NoChargeOnError ==
    RetFailed => (ret.charged = <<>> /\ pending = ret.pendingBefore)

\* C4: every node returned by a successful Select satisfies the writability
\* predicate of the selector's resource type in the view the call examined.
C4_ReturnedWritable ==
    RetOk =>
        \A i \in 1..Len(ret.newHosts) :
            \E id \in DOMAIN ViewNodes :
                /\ ViewNodes[id].Addr = ret.newHosts[i]
                /\ WritableFor(ViewNodes[id], s.nodeType)

\* C4 witness: hosts were returned from a view holding a node that is not writable
C4_Witness ==
    /\ RetOk
    /\ ret.replicaNum >= 1
    /\ \E id \in DOMAIN ViewNodes : ~WritableFor(ViewNodes[id], s.nodeType)

\* C5: when fewer than replicaNum >= 1 nodes are writable and not excluded,
\* Select returns a not-enough-hosts error and no host list.
C5_ShortfallError ==
    (/\ ret.called
     /\ ret.replicaNum >= 1
     /\ Cardinality(Eligible(ret.excludeHosts)) < ret.replicaNum)
    => (/\ ret.returns
        /\ ret.err \in {ErrNoEnoughHosts, ErrNoEnoughWritableHosts}
        /\ ret.newHosts = <<>>)

\* C5 witness: the view holds enough nodes but only one of them is eligible
C5_Witness ==
    /\ ret.called
    /\ ret.replicaNum = 2
    /\ Cardinality(DOMAIN ViewNodes) = 3
    /\ Cardinality(Eligible(ret.excludeHosts)) = 1

\* C6: Select with replicaNum = 0 returns an empty host list and an empty
\* peer list with no error, for every policy.
C6_ZeroReplicas ==
    (ret.called /\ ret.replicaNum = 0)
    => (ret.returns /\ ret.err = ErrNil /\ ret.newHosts = <<>> /\ ret.peers = <<>>)

\* C8 as claimed: on a successful Select peers and hosts correspond index by
\* index: peers[i].addr = hosts[i], and peers[i].id is the id of that node.
C8_PeersIndexHosts ==
    RetOk =>
        /\ Len(ret.peers) = ret.replicaNum
        /\ Len(ret.newHosts) = ret.replicaNum
        /\ \A i \in 1..ret.replicaNum :
              /\ ret.peers[i].Addr = ret.newHosts[i]
              /\ ret.peers[i].ID \in DOMAIN ViewNodes
              /\ ViewNodes[ret.peers[i].ID].Addr = ret.newHosts[i]

\* C8 as amended: on a successful Select peers lists the picked nodes in pick
\* order (peers[i].addr is the i-th picked address and peers[i].id the id of
\* the node with that address) and hosts is a permutation of those addresses.
C8_PeersFollowPickOrder ==
    RetOk =>
        /\ Len(ret.peers) = ret.replicaNum
        /\ Len(ret.newHosts) = ret.replicaNum
        /\ Len(ret.orderHosts) = ret.replicaNum
        /\ \A i \in 1..ret.replicaNum :
              /\ ret.peers[i].Addr = ret.orderHosts[i]
              /\ ret.peers[i].ID \in DOMAIN ViewNodes
              /\ ViewNodes[ret.peers[i].ID].Addr = ret.orderHosts[i]
        /\ \E p \in Perms(1..ret.replicaNum) :
              \A i \in 1..ret.replicaNum : ret.newHosts[i] = ret.orderHosts[p[i]]

\* C8 witness: the reshuffle has moved the hosts away from the pick order
C8_Witness ==
    /\ RetOk
    /\ ret.replicaNum = 2
    /\ ret.newHosts # ret.orderHosts

\* the number of nodes a RoundRobin scan from cursor c looks at before it has
\* met n eligible ones
EligibleAmong(c, k, excludeHosts) ==
    Cardinality({j \in 0..(k - 1) :
        SortedIds[((c + j) % Len(SortedIds)) + 1] \in Eligible(excludeHosts)})

ExaminedToPick(c, n, excludeHosts) ==
    CHOOSE k \in 0..Len(SortedIds) :
        /\ EligibleAmong(c, k, excludeHosts) = n
        /\ k > 0 => EligibleAmong(c, k - 1, excludeHosts) < n

\* C9 as claimed: after every RoundRobin call, successful or failed, the
\* cursor is the cursor before the call plus the number of nodes examined.
C9_CursorAdvancesAlways ==
    (ret.called /\ ret.returns /\ IsRoundRobin)
    => s.index = ret.before.index + ret.nodeIndex

\* C9 as amended: after a successful RoundRobin call the cursor is the cursor
\* before the call plus the number of nodes examined (not accepted); a failed
\* call leaves the cursor where it was, whatever it examined.
C9_CursorAdvancesOnSuccess ==
    /\ (RetOk /\ IsRoundRobin) =>
          /\ ret.nodeIndex =
                ExaminedToPick(ret.before.index, ret.replicaNum, ret.excludeHosts)
          /\ s.index = ret.before.index + ret.nodeIndex
    /\ (RetFailed /\ IsRoundRobin) => s.index = ret.before.index

\* C9 witness: a successful call that examined more nodes than it accepted
C9_Witness ==
    /\ RetOk
    /\ IsRoundRobin
    /\ ret.nodeIndex > ret.replicaNum
    /\ ret.before.index > 0

\* C10: on a view whose nodes are all writable, with nothing excluded, a
\* RoundRobin Select(N), 1 <= N <= |S|, at cursor c picks the nodes at the
\* positions c mod |S|, ..., (c+N-1) mod |S| of the id-ascending order,
\* examines those N nodes only and advances the cursor by N.
C10_Rotation ==
    (/\ ret.called
     /\ IsRoundRobin
     /\ ret.excludeHosts = <<>>
     /\ \A id \in DOMAIN ViewNodes : WritableFor(ViewNodes[id], s.nodeType)
     /\ 1 <= ret.replicaNum
     /\ ret.replicaNum <= Cardinality(DOMAIN ViewNodes))
    => (/\ RetOk
        /\ ret.orderHosts =
              [i \in 1..ret.replicaNum |->
                  ViewNodes[SortedIds[((ret.before.index + i - 1) % Len(SortedIds)) + 1]].Addr]
        /\ Elems(ret.newHosts) = Elems(ret.orderHosts)
        /\ ret.nodeIndex = ret.replicaNum
        /\ s.index = ret.before.index + ret.replicaNum)

\* C10 witness: three nodes A < B < C, the second Select(2) in a row, at
\* cursor 2, returns {C, A}
C10_Witness ==
    /\ RetOk
    /\ IsRoundRobin
    /\ DOMAIN ViewNodes = {1, 2, 3}
    /\ \A id \in DOMAIN ViewNodes : WritableFor(ViewNodes[id], s.nodeType)
    /\ ret.excludeHosts = <<>>
    /\ ret.before.index = 2
    /\ ret.replicaNum = 2
    /\ Elems(ret.newHosts) = {AddrTable[3], AddrTable[1]}

\* ------------------------------------------------------------ properties of the coordinator
HoldsResult(t) == threads[t].pc \in {"unlockSelector", "unlockNodeSelect"}
InNodeSelect(t) ==
    threads[t].pc \in {"selectorLock", "select", "selecting", "unlockSelector", "unlockNodeSelect"}
Occurrences(seq, x) == Cardinality({i \in 1..Len(seq) : seq[i] = x})
OneIf(b) == IF b THEN 1 ELSE 0

\* C3: a successful Select has invoked SelectNodeForWrite exactly once on each
\* returned node and on no other node, and it has done so by the time the
\* thread, still holding nodeSelectLock, is about to release the locks.
C3_ChargedOnceUnderLock ==
    \A t \in Threads :
        (HoldsResult(t) /\ threads[t].res.err = ErrNil) =>
            LET res == threads[t].res
                nodeType == res.before.nodeType
            IN /\ nodeSelectLock = t
               /\ \A id \in NodeIds :
                     /\ Occurrences(res.charged, id)
                           = OneIf(AddrTable[id] \in Elems(res.newHosts))
                     /\ pending[nodeType][id]
                           = res.pendingBefore[nodeType][id]
                              + OneIf(AddrTable[id] \in Elems(res.newHosts))
               /\ \A other \in NodeResourceType \ {nodeType} :
                     pending[other] = res.pendingBefore[other]

\* C3 witness: a thread holds two returned hosts and has not released nodeSelectLock
C3_Witness ==
    \E t \in Threads :
        /\ threads[t].pc = "unlockNodeSelect"
        /\ threads[t].res.err = ErrNil
        /\ threads[t].res.replicaNum = 2
        /\ nodeSelectLock = t

\* C7: within the node set at most one thread is between taking and releasing
\* nodeSelectLock, and a Select that is executing finds the selector as it was
\* when it entered: no other call has moved the cursor or the carries meanwhile.
C7_OneSelectAtATime ==
    /\ Cardinality({t \in Threads : InNodeSelect(t)}) <= 1
    /\ \A t \in Threads :
          threads[t].pc = "selecting" => SelectorOf(threads[t]) = threads[t].entry

\* C7 witness: one thread is inside Select while another call waits for nodeSelectLock
C7_Witness ==
    \E t, u \in Threads :
        /\ t # u
        /\ threads[t].pc = "selecting"
        /\ threads[u].pc = "nodeSelectLock"
        /\ threads[u].kind = threads[t].kind

\* ------------------------------------------------------------ properties of repeated calls
\* the last two calls both succeeded
BothOk == RetOk /\ ret.prev.called /\ ret.prev.err = ErrNil

\* C11 as claimed: whenever the node set holds at least 2N nodes, two
\* consecutive successful RoundRobin Select(N) calls with nothing excluded, on
\* an unchanged node set, return disjoint host sets.
C11_DisjointWhenLarge ==
    (/\ BothOk
     /\ IsRoundRobin
     /\ ret.excludeHosts = <<>>
     /\ Cardinality(DOMAIN ViewNodes) >= 2 * ret.replicaNum)
    => Elems(ret.newHosts) \cap Elems(ret.prev.newHosts) = {}

\* C11 as amended: whenever at least 2N nodes of the node set are writable,
\* two consecutive successful RoundRobin Select(N) calls with nothing excluded,
\* on an unchanged node set, return disjoint host sets.
C11_DisjointWhenWritable ==
    (/\ BothOk
     /\ IsRoundRobin
     /\ ret.excludeHosts = <<>>
     /\ Cardinality(Eligible(<<>>)) >= 2 * ret.replicaNum)
    => Elems(ret.newHosts) \cap Elems(ret.prev.newHosts) = {}

\* C11 witness: the second of two successful calls, on a node set with a node
\* that is not writable, has skipped that node and returned another host
C11_Witness ==
    /\ BothOk
    /\ IsRoundRobin
    /\ ret.excludeHosts = <<>>
    /\ Cardinality(Eligible(<<>>)) >= 2 * ret.replicaNum
    /\ Cardinality(Eligible(<<>>)) < Cardinality(DOMAIN ViewNodes)
    /\ ret.nodeIndex > ret.replicaNum
    /\ Elems(ret.newHosts) # Elems(ret.prev.newHosts)

\* ------------------------------------------------------------ more properties of a call on s
\* the free capacity of a node in the metric of a resource type
FreeOf(node, nodeType) ==
    CASE nodeType = DataNodeDisk -> node.AvailableSpace
      [] nodeType = MetaNodeMemory -> node.Total - node.Used
      [] nodeType = MetaNodeRocksdb -> node.RocksdbTotal - node.RocksdbUsed

\* the ids of the nodes whose addresses a call returned
ReturnedIds == {id \in DOMAIN ViewNodes : ViewNodes[id].Addr \in Elems(ret.newHosts)}

IsAvailableSpaceFirst == s.name = AvailableSpaceFirstNodeSelectorName
IsCarryWeight == s.name = CarryWeightNodeSelectorName

\* C12: a successful AvailableSpaceFirst Select returns a top-N set by
\* available space among the writable, non-excluded nodes: N nodes, each with
\* at least as much available space as every writable, non-excluded node that
\* was not returned.
C12_TopNBySpace ==
    (RetOk /\ IsAvailableSpaceFirst) =>
        /\ Cardinality(ReturnedIds) = ret.replicaNum
        /\ ReturnedIds \subseteq Eligible(ret.excludeHosts)
        /\ \A id \in ReturnedIds : \A other \in Eligible(ret.excludeHosts) \ ReturnedIds :
              FreeOf(ViewNodes[id], s.nodeType) >= FreeOf(ViewNodes[other], s.nodeType)

\* C12 witness: the node with the most space is excluded or not writable, and
\* an eligible node with less space than the returned ones is left out
C12_Witness ==
    /\ RetOk
    /\ IsAvailableSpaceFirst
    /\ ret.replicaNum >= 1
    /\ \E big \in (DOMAIN ViewNodes) \ Eligible(ret.excludeHosts) :
          \A id \in ReturnedIds :
              FreeOf(ViewNodes[big], s.nodeType) > FreeOf(ViewNodes[id], s.nodeType)
    /\ \E small \in Eligible(ret.excludeHosts) \ ReturnedIds :
          \A id \in ReturnedIds :
              FreeOf(ViewNodes[small], s.nodeType) < FreeOf(ViewNodes[id], s.nodeType)

\* ------------------------------------------------------------ the carries of CarryWeight
\* the total capacity of a node in the metric of a resource type, and the
\* largest one of the view
TotalOf(node, nodeType) ==
    CASE nodeType = DataNodeDisk -> node.Total
      [] nodeType = MetaNodeMemory -> node.Total
      [] nodeType = MetaNodeRocksdb -> node.RocksdbTotal

ViewMaxTotal ==
    CHOOSE m \in {TotalOf(ViewNodes[id], s.nodeType) : id \in DOMAIN ViewNodes} :
        \A id \in DOMAIN ViewNodes : TotalOf(ViewNodes[id], s.nodeType) <= m

\* the carry a call starts from: the stored one, or free / maxTotal for a node
\* the selector has not seen yet
CarryBefore(id) ==
    IF id \in DOMAIN ret.before.carry THEN ret.before.carry[id]
    ELSE Ratio(FreeOf(ViewNodes[id], s.nodeType), ViewMaxTotal)

\* the weight of a listed node: free disk space for a data node, free memory
\* for a meta node, over the largest total
ListedWeight(id) ==
    IF s.nodeType = DataNodeDisk
    THEN Ratio(ViewNodes[id].AvailableSpace, ViewMaxTotal)
    ELSE Ratio(ViewNodes[id].Total - ViewNodes[id].Used, ViewMaxTotal)

\* the carry of a node after k passes of the advancement loop: the listed
\* nodes (writable, not excluded) are advanced, the others are left alone
CarryAfterPasses(id, k) ==
    IF id \in Eligible(ret.excludeHosts)
    THEN Min(CarryBefore(id) + k * ListedWeight(id), CarryMax)
    ELSE CarryBefore(id)

\* C13: a successful CarryWeight Select leaves in the carry map, for some
\* number k of advancement passes, the carry after k passes minus exactly 1.0
\* for each picked node and the carry after k passes for every other node;
\* the passes start from the carries the previous call stored (a known node
\* is not initialised again), and the next call on the selector starts from
\* exactly the stored values.
C13_DecrementVisible ==
    (RetOk /\ IsCarryWeight) =>
        /\ ret.prev.called => ret.before = ret.prev.after
        /\ DOMAIN s.carry = (DOMAIN ret.before.carry) \cup (DOMAIN ViewNodes)
        /\ \E k \in 0..CarryMax :
              \A id \in DOMAIN ViewNodes :
                  s.carry[id] = CarryAfterPasses(id, k) - OneIf(id \in ReturnedIds) * CarryOne

\* C13 witness: a node picked by the previous call, whose carry that call left
\* below 1.0, has been advanced from the stored value and picked again
C13_Witness ==
    /\ BothOk
    /\ IsCarryWeight
    /\ \E id \in ReturnedIds :
          /\ id \in Elems(ret.prev.charged)
          /\ ret.before.carry[id] < CarryOne
          /\ s.carry[id] # ret.before.carry[id] - CarryOne

\* C14: whatever calls were made on a CarryWeight selector, and whatever nodes
\* joined or changed writability in between, no entry of its carry map
\* exceeds 10.0 (every free capacity of the fleet is at most the largest total).
C14_CarryCeiling ==
    IsCarryWeight => \A id \in DOMAIN s.carry : s.carry[id] <= CarryMax

\* C14 witness: the advancement loop has raised a carry to the ceiling
C14_Witness ==
    /\ IsCarryWeight
    /\ ret.called
    /\ \A id \in DOMAIN ViewNodes :
          FreeOf(ViewNodes[id], s.nodeType) <= ViewMaxTotal
    /\ \E id \in DOMAIN ViewNodes :
          /\ s.carry[id] = CarryMax
          /\ CarryBefore(id) < CarryOne

\* ------------------------------------------------------------ properties of the proportionality scenario
\* C15: every call of the scenario succeeds, and when 1000 calls have been
\* made node 1, which holds two thirds of the capacity, has been picked
\* between 637 and 697 times.
C15_Proportional ==
    /\ ret.called => (RetOk /\ Len(ret.charged) = 1)
    /\ PendingTotal = 1000 =>
          (pending[DataNodeDisk][1] >= 637 /\ pending[DataNodeDisk][1] <= 697)

\* C15 witness: the 1000th call has returned and both nodes have been picked
C15_Witness ==
    /\ RetOk
    /\ PendingTotal = 1000
    /\ pending[DataNodeDisk][1] + pending[DataNodeDisk][2] = 1000
    /\ pending[DataNodeDisk][1] > 0
    /\ pending[DataNodeDisk][2] > 0

\* ------------------------------------------------------------ starvation
\* every node of the view is writable and has free capacity in the metric of
\* the selector's resource type
AllWritableWithFree ==
    \A id \in DOMAIN ViewNodes :
        /\ WritableFor(ViewNodes[id], s.nodeType)
        /\ FreeOf(ViewNodes[id], s.nodeType) > 0

\* a CarryWeight call on such a view, with nothing excluded, has succeeded;
\* the caller repeats it with the same N on the same node set for ever
StarvationCase ==
    /\ RetOk
    /\ IsCarryWeight
    /\ ret.excludeHosts = <<>>
    /\ AllWritableWithFree

\* C16: on a static node set in which every node is writable, not excluded and
\* has positive free capacity, under an unbounded sequence of successful
\* CarryWeight Select calls with a fixed N >= 1, every node is eventually picked.
\* A successful call that leaves the selector exactly as it found it can be
\* repeated for ever with the same outcome, so a node it did not pick is never
\* picked: the property says that no such call exists.
C16_NoStarvingFixpoint ==
    ~(/\ StarvationCase
      /\ s = ret.before
      /\ \E id \in DOMAIN ViewNodes : id \notin ReturnedIds)

\* the view the call examined holds fewer nodes than it was asked for
FewerThanAsked ==
    /\ ret.called
    /\ Cardinality(DOMAIN ViewNodes) < ret.replicaNum

NoNodeCharged ==
    /\ ret.charged = <<>>
    /\ pending = ret.pendingBefore

PolicyNames ==
    {RoundRobinNodeSelectorName, CarryWeightNodeSelectorName,
     AvailableSpaceFirstNodeSelectorName, StrawNodeSelectorName}
OtherNames == {"Unknown", "", "roundrobin", "carryweight", "Straw "}

\* C18: NewNodeSelector(name, type) builds the selector whose GetName() is name
\* when name is exactly a policy name and a CarryWeight selector for every
\* other name, bound to the given resource type; the selectors of the node
\* set and the selector under call are built that way.
C18_BuildsNamedPolicy ==
    /\ \A name \in PolicyNames \cup OtherNames, t \in NodeResourceType :
          LET sel == NewNodeSelector(name, t)
          IN /\ GetName(sel) = (IF name \in PolicyNames
                                THEN name
                                ELSE CarryWeightNodeSelectorName)
             /\ sel.nodeType = t
    /\ GetName(s) \in PolicyNames
    /\ s.nodeType \in NodeResourceType
    /\ DOMAIN s = DOMAIN NewNodeSelector(GetName(s), s.nodeType)
    /\ GetName(dataNodeDiskSelector) = CarryWeightNodeSelectorName
    /\ dataNodeDiskSelector.nodeType = DataNodeDisk
    /\ GetName(metaNodeMemorySelector) = CarryWeightNodeSelectorName
    /\ metaNodeMemorySelector.nodeType = MetaNodeMemory
    /\ GetName(metaNodeRocksdbSelector) = CarryWeightNodeSelectorName
    /\ metaNodeRocksdbSelector.nodeType = MetaNodeRocksdb

\* C18 witness: a selector built from a name that is no policy has served a
\* call as a CarryWeight selector of its resource type
C18_Witness ==
    /\ RetOk
    /\ ret.before = NewNodeSelector("Unknown", MetaNodeRocksdb)
    /\ GetName(s) = CarryWeightNodeSelectorName
    /\ s.nodeType = MetaNodeRocksdb
    /\ s.carry # <<>>

\* every outcome of running the returned call again from the state it started
\* in: one per iteration order of the node map (and per reshuffle)
Reruns == Select(ret.before, NodeSet, ret.excludeHosts, ret.replicaNum)

\* C19: RoundRobin Select is deterministic: every execution from the same
\* cursor, node set, excluded list and replicaNum returns the same set of
\* addresses (or the same error) and leaves the same cursor, whatever order the
\* node map is iterated in.
C19_RoundRobinDeterministic ==
    (ret.called /\ ret.returns /\ IsRoundRobin) =>
        \A r \in Reruns :
            /\ r.err = ret.err
            /\ Len(r.newHosts) = Len(ret.newHosts)
            /\ Elems(r.newHosts) = Elems(ret.newHosts)
            /\ r.s.index = s.index

\* C19 witness: a successful RoundRobin call on three nodes that started past
\* the first node and did not take them all, so the iteration orders of the
\* map differ in the nodes under the cursor
C19_Witness ==
    /\ RetOk
    /\ IsRoundRobin
    /\ Cardinality(DOMAIN ViewNodes) = 3
    /\ ret.replicaNum = 2
    /\ ret.before.index > 0
    /\ Cardinality(Reruns) > 1

\* the number of listed entries whose carry is at least 1.0 after k passes
AvailAfter(k) ==
    Cardinality({id \in Eligible(ret.excludeHosts) : CarryAfterPasses(id, k) >= CarryOne})

\* C20: in CarryWeight the advancement loop uses the threshold of the initial
\* count, carry >= 1.0: no pass is made when at least N listed entries already
\* have carry >= 1.0, and advancement stops after the first pass at whose end
\* at least N listed entries have carry >= 1.0.  The carries a successful call
\* stores are those after exactly that many passes, less 1.0 for a picked node.
C20_SameThreshold ==
    (RetOk /\ IsCarryWeight) =>
        \E k \in 0..CarryMax :
            /\ AvailAfter(k) >= ret.replicaNum
            /\ \A j \in 0..(k - 1) : AvailAfter(j) < ret.replicaNum
            /\ \A id \in DOMAIN ViewNodes :
                  s.carry[id] = CarryAfterPasses(id, k) - OneIf(id \in ReturnedIds) * CarryOne

\* C21: every CarryWeight Select call terminates: whenever at least N nodes are
\* writable and not excluded, the advancement loop reaches availCount >= N after
\* finitely many passes and the call returns, also when listed nodes have
\* weight 0 or carries are at the ceiling.
C21_CarryWeightTerminates ==
    (/\ ret.called
     /\ IsCarryWeight
     /\ Cardinality(Eligible(ret.excludeHosts)) >= ret.replicaNum)
    => ret.returns

\* the entries the returned CarryWeight call listed, for one iteration order
ListedBy(iter) ==
    LET total == getTotalMax(ret.before, ViewNodes)
        s1 == [ret.before EXCEPT !.carry = prepareCarry(ret.before, ViewNodes, total)]
    IN getCarryNodes(s1, total, ret.excludeHosts, iter).nodeTabs

\* C22: for a CarryWeight selector bound to MetaNodeRocksdb, the weight of each
\* listed node is its RocksDB free capacity (rocksdbTotal - rocksdbUsed) over
\* the maximum RocksDB total, the metric of the node's initial carry, and not
\* the memory metric (total - used).
C22_RocksdbWeight ==
    (ret.called /\ ret.replicaNum >= 1 /\ IsCarryWeight /\ s.nodeType = MetaNodeRocksdb) =>
        \A iter \in RangeOrders(ViewNodes) :
            LET listed == ListedBy(iter)
            IN \A i \in 1..Len(listed) :
                  listed[i].Weight =
                      Ratio(GetRocksdbTotal(listed[i].Ptr) - GetRocksdbUsed(listed[i].Ptr),
                            getTotalMaxForMetaNodeRocksdb(ViewNodes))

\* the carry a node had when the entries were sorted: a picked node has lost
\* 1.0 since
CarryWhenSorted(id) == s.carry[id] + OneIf(id \in ReturnedIds) * CarryOne

\* C23: a successful CarryWeight Select picks N listed nodes with the highest
\* post-advancement carry: the carry, before its 1.0 decrement, of every picked
\* node is >= the carry of every writable, non-excluded node that was not picked.
C23_HighestCarryPicked ==
    (RetOk /\ IsCarryWeight) =>
        /\ ReturnedIds \subseteq Eligible(ret.excludeHosts)
        /\ \A p \in ReturnedIds :
              \A q \in Eligible(ret.excludeHosts) \ ReturnedIds :
                  CarryWhenSorted(p) >= CarryWhenSorted(q)

\* C23 witness: two of three listed nodes were picked after a pass of
\* advancement, and the one left out had a strictly lower carry than both
C23_Witness ==
    /\ RetOk
    /\ IsCarryWeight
    /\ ret.replicaNum = 2
    /\ Cardinality(Eligible(ret.excludeHosts)) = 3
    /\ \E id \in ReturnedIds : CarryWhenSorted(id) > CarryBefore(id)
    /\ \E q \in Eligible(ret.excludeHosts) \ ReturnedIds :
          \A p \in ReturnedIds : CarryWhenSorted(p) > CarryWhenSorted(q)

\* the value a first-seen node's carry is initialised to
InitialCarry(id) == Ratio(FreeOf(ViewNodes[id], s.nodeType), ViewMaxTotal)

\* the nodes the call did not list: not writable, or excluded
Unlisted == (DOMAIN ViewNodes) \ Eligible(ret.excludeHosts)

\* C24: CarryWeight initialises carry[id] to freeCapacity / maxTotal only for
\* nodes absent from the carry map, and for every such node of the view,
\* non-writable and excluded ones included; an entry already in the map is not
\* overwritten by initialisation, and a call leaves unchanged the carry of
\* every node that is non-writable or excluded in that call.
C24_InitOnlyAbsent ==
    (ret.called /\ IsCarryWeight) =>
        /\ DOMAIN s.carry = (DOMAIN ret.before.carry) \cup (DOMAIN ViewNodes)
        /\ \A id \in (DOMAIN ret.before.carry) \ (DOMAIN ViewNodes) :
              s.carry[id] = ret.before.carry[id]
        /\ \A id \in Unlisted :
              s.carry[id] = (IF id \in DOMAIN ret.before.carry
                             THEN ret.before.carry[id]
                             ELSE InitialCarry(id))
        /\ \A id \in Eligible(ret.excludeHosts) :
              \E k \in 0..CarryMax :
                  s.carry[id] =
                      Min((IF id \in DOMAIN ret.before.carry
                           THEN ret.before.carry[id]
                           ELSE InitialCarry(id)) + k * ListedWeight(id), CarryMax)
                      - OneIf(ret.returns /\ id \in Elems(ret.charged)) * CarryOne

\* C24 witness: the call saw for the first time a node it did not list, and
\* did not list a known node whose stored carry differs from what
\* initialisation would give it now
C24_Witness ==
    /\ ret.called
    /\ IsCarryWeight
    /\ \E id \in Unlisted : id \notin DOMAIN ret.before.carry
    /\ \E id \in Unlisted :
          /\ id \in DOMAIN ret.before.carry
          /\ ret.before.carry[id] # InitialCarry(id)

IsStrawSelector == s.name = StrawNodeSelectorName

\* C25: Straw never draws a straw for, and never returns, a node whose free
\* capacity (weight) is 0: such nodes are removed from the candidate list
\* before any draw, so every node a successful call returns has weight > 0.
C25_NoZeroWeightReturned ==
    (RetOk /\ IsStrawSelector) =>
        \A id \in ReturnedIds : getWeight(s, ViewNodes[id]) > 0

\* ------------------------------------------------------------ properties of the selector locks
\* the thread is between taking and releasing the selector lock of a selection
InSelectOf(t, kind) ==
    /\ threads[t].pc \in {"select", "selecting", "unlockSelector"}
    /\ threads[t].kind = kind

Replacing(t, kind) ==
    /\ threads[t].pc \in {"replace", "unlockReplace"}
    /\ threads[t].kind = kind

\* C26: getAvailDataNodeHosts holds dataNodeSelectorLock in read mode while it
\* delegates to the data selector, as getAvailMetaNodeHosts does with
\* metaNodeSelectorLock: a thread that only read-locks the lock is never
\* blocked by a data selection in progress, and the lock is held in write mode
\* only while the selector is replaced.
C26_DataSelectReadLocked ==
    /\ \A t \in Threads :
          InSelectOf(t, "data") =>
              /\ t \in dataNodeSelectorLock.readers
              /\ CanRLock(dataNodeSelectorLock)
    /\ dataNodeSelectorLock.writer # 0 =>
          Replacing(dataNodeSelectorLock.writer, "data")

\* C26 for the meta kind, where it holds
MetaSelectReadLocked ==
    /\ \A t \in Threads :
          InSelectOf(t, "meta") =>
              /\ t \in metaNodeSelectorLock.readers
              /\ CanRLock(metaNodeSelectorLock)
    /\ metaNodeSelectorLock.writer # 0 =>
          Replacing(metaNodeSelectorLock.writer, "meta")

\* C27: the selector installed for a kind cannot be replaced while a Select of
\* that kind is in progress on the node set: a policy change waits for the
\* kind's selector lock until the running Select has returned, so a Select
\* runs from start to finish on the selector it entered with, in the state it
\* found it in.
C27_NoReplaceDuringSelect ==
    /\ \A t, u \in Threads : \A kind \in Kinds :
          ~(InSelectOf(t, kind) /\ Replacing(u, kind))
    /\ \A t \in Threads :
          threads[t].pc = "selecting" => SelectorOf(threads[t]) = threads[t].entry

\* C27 witness: a policy change of a kind waits for the lock that a Select of
\* that kind, still executing, holds
C27_Witness ==
    \E t, u \in Threads : \E kind \in Kinds :
        /\ threads[t].pc = "selecting"
        /\ threads[t].kind = kind
        /\ threads[u].pc = "replaceLock"
        /\ threads[u].kind = kind
        /\ ~CanLock(SelectorLockOf(kind))
        /\ GetName(SelectorOf(threads[t])) # threads[u].name

\* a store mode that is neither memory nor RocksDB
StoreModeOther == "Other"

\* the step in which the Select of thread t returns
SelectReturns(t) ==
    /\ threads[t].pc = "selecting"
    /\ threads'[t].pc = "unlockSelector"

\* C28: getAvailMetaNodeHosts delegates to the MetaNodeRocksdb selector exactly
\* when storeMode is StoreModeRocksDb and to the MetaNodeMemory selector
\* otherwise; it never uses the data selector, and the state of the selector
\* that was not chosen is unchanged by the call.
C28_MetaDelegation ==
    [][/\ \A storeMode \in {StoreModeMem, StoreModeRocksDb, StoreModeOther} :
             SelectorOf([kind |-> "meta", storeMode |-> storeMode])
                 = (IF storeMode = StoreModeRocksDb THEN metaNodeRocksdbSelector
                                                    ELSE metaNodeMemorySelector)
       /\ \A t \in Threads :
          (SelectReturns(t) /\ threads[t].kind = "meta") =>
              LET res == threads'[t].res
                  rocksdb == threads[t].storeMode = StoreModeRocksDb
              IN /\ res.before = (IF rocksdb THEN metaNodeRocksdbSelector
                                             ELSE metaNodeMemorySelector)
                 /\ res.before.nodeType = (IF rocksdb THEN MetaNodeRocksdb
                                                      ELSE MetaNodeMemory)
                 /\ dataNodeDiskSelector' = dataNodeDiskSelector
                 /\ rocksdb => metaNodeMemorySelector' = metaNodeMemorySelector
                 /\ ~rocksdb => metaNodeRocksdbSelector' = metaNodeRocksdbSelector
                 /\ pending'[DataNodeDisk] = pending[DataNodeDisk]]_vars

\* C28 witness: a RocksDB meta call has returned hosts and has moved the state
\* of the RocksDB selector, which differs from that of the memory selector
C28_Witness ==
    \E t \in Threads :
        /\ threads[t].pc = "unlockSelector"
        /\ threads[t].kind = "meta"
        /\ threads[t].storeMode = StoreModeRocksDb
        /\ threads[t].res.err = ErrNil
        /\ metaNodeRocksdbSelector # threads[t].res.before
        /\ metaNodeMemorySelector = NewNodeSelector(GetName(metaNodeMemorySelector), MetaNodeMemory)

\* ------------------------------------------------------------ completeness
\* the nodes a call can take: writable and not excluded, and for CarryWeight
\* with positive free capacity
Takeable ==
    {id \in Eligible(ret.excludeHosts) :
        IsCarryWeight => FreeOf(ViewNodes[id], s.nodeType) > 0}

\* C29: for every policy, if at least N >= 1 nodes of the view are writable and
\* not excluded (with positive free capacity in the case of CarryWeight),
\* Select succeeds, whatever the cursor, the carries or the straws drawn.
C29_Completeness ==
    (/\ ret.called
     /\ ret.replicaNum >= 1
     /\ Cardinality(Takeable) >= ret.replicaNum)
    => (ret.returns /\ ret.err = ErrNil)

\* C29 away from the CarryWeight selector bound to MetaNodeRocksdb
CompletenessElsewhere ==
    ~(IsCarryWeight /\ s.nodeType = MetaNodeRocksdb) => C29_Completeness

\* ------------------------------------------------------------ the error path of CarryWeight
\* C30: a CarryWeight Select that returns a not-enough-hosts error has invoked
\* SelectNodeForWrite on no node and has neither advanced nor decremented any
\* existing carry entry; the only state change on that path is the
\* initialisation of the carry of newly seen nodes.
C30_ErrorLeavesCarries ==
    (RetFailed /\ IsCarryWeight) =>
        /\ ret.err \in {ErrNoEnoughHosts, ErrNoEnoughWritableHosts}
        /\ NoNodeCharged
        /\ DOMAIN s.carry = (DOMAIN ret.before.carry) \cup (DOMAIN ViewNodes)
        /\ \A id \in DOMAIN ret.before.carry : s.carry[id] = ret.before.carry[id]
        /\ \A id \in (DOMAIN ViewNodes) \ (DOMAIN ret.before.carry) :
              s.carry[id] = InitialCarry(id)
        /\ s.index = ret.before.index

\* C30 witness: the failed call listed a known node with positive weight, whose
\* carry a pass would have raised, and saw another node for the first time
C30_Witness ==
    /\ RetFailed
    /\ IsCarryWeight
    /\ \E id \in Eligible(ret.excludeHosts) :
          /\ id \in DOMAIN ret.before.carry
          /\ ListedWeight(id) > 0
          /\ ret.before.carry[id] < CarryMax
    /\ \E id \in DOMAIN ViewNodes : id \notin DOMAIN ret.before.carry

\* ------------------------------------------------------------ the sign of the carries
\* C31: in CarryWeight every entry of the carry map is >= 0 in every reachable
\* state: a node is picked only when its carry after advancement is >= 1.0, so
\* the decrement by 1.0 never drives a carry below zero.
C31_CarryNonNegative ==
    IsCarryWeight =>
        /\ \A id \in DOMAIN s.carry : s.carry[id] >= 0
        /\ RetOk => \A id \in ReturnedIds : CarryWhenSorted(id) >= CarryOne

\* C31 witness: a node was picked with a carry of exactly 1.0 and is left with 0
C31_Witness ==
    /\ RetOk
    /\ IsCarryWeight
    /\ \E id \in ReturnedIds :
          /\ s.carry[id] = 0
          /\ FreeOf(ViewNodes[id], s.nodeType) > 0

\* ------------------------------------------------------------ RoundRobin fairness
\* how often node id has been selected
Picks(id) == pending[s.nodeType][id]

\* C32: on a static node set in which every node is writable, with nothing
\* excluded, after any sequence of successful RoundRobin Select calls (each
\* with 1 <= N <= |S|, N varying) the numbers of times any two nodes have
\* been selected differ by at most 1.
C32_RoundRobinFair ==
    (IsRoundRobin /\ (ret.called => RetOk)) =>
        \A a, b \in DOMAIN ViewNodes : Picks(a) - Picks(b) <= 1

\* C32 witness: after calls with different N on three nodes the cursor is in
\* the middle of a round: some node is one selection ahead of another
C32_Witness ==
    /\ RetOk
    /\ IsRoundRobin
    /\ Cardinality(DOMAIN ViewNodes) = 3
    /\ ret.replicaNum = 2
    /\ ret.before.index % 3 = 2
    /\ PendingTotal >= 6
    /\ \E a, b \in DOMAIN ViewNodes : Picks(a) = Picks(b) + 1

\* ------------------------------------------------------------ hosts and peers
\* C33: for every policy, on a successful Select the returned hosts are a
\* permutation of the addresses of the returned peers: len(hosts) = len(peers)
\* = N, the multiset of peers[i].addr equals the multiset of hosts, and each
\* peer carries the id of the node with its address.
C33_HostsPermutePeers ==
    RetOk =>
        /\ Len(ret.newHosts) = ret.replicaNum
        /\ Len(ret.peers) = ret.replicaNum
        /\ \E p \in Perms(1..ret.replicaNum) :
              \A i \in 1..ret.replicaNum : ret.newHosts[i] = ret.peers[p[i]].Addr
        /\ \A i \in 1..ret.replicaNum :
              /\ ret.peers[i].ID \in DOMAIN ViewNodes
              /\ ViewNodes[ret.peers[i].ID].Addr = ret.peers[i].Addr

\* C33 witness: a Straw call returned three hosts in an order that is not the
\* order of the peers
C33_Witness ==
    /\ RetOk
    /\ IsStrawSelector
    /\ ret.replicaNum = 3
    /\ \E i \in 1..3 : ret.newHosts[i] # ret.peers[i].Addr


\* ------------------------------------------------------------ properties of the store scheduler
\* C34: at most one dumpFunc is in flight at any time, and while one is in
\* flight scheduleState is Running: a store is started only once the previous
\* one has reset scheduleState to Stopped.
C34_OneStoreInFlight ==
    /\ Cardinality(dumps) <= 1
    /\ dumps # {} => scheduleState = StateRunning
    /\ readyChan > 0 => scheduleState = StateRunning /\ dumps = {}

\* a store is in flight after an earlier one has ended, and a batch is waiting
C34_Witness ==
    /\ dumps # {}
    /\ Len(msgs) > 0
    /\ stored \cup failed # {}
    /\ \A d \in dumps : d.msg.id \notin failed


\* the dumpFunc goroutines started by a step
Started == {d \in dumps' \ dumps : d.pc = "store"}

\* C35: curIndex never decreases; it changes only in the step of a dumpFunc
\* whose store succeeded, to the ApplyID of the stored snapshot, which is
\* strictly greater than the old value; and no store is started for a
\* message whose ApplyID is <= curIndex.
C35_CurIndexAdvances ==
    [][/\ curIndex' >= curIndex
       /\ curIndex' # curIndex =>
             \E d \in dumps :
                /\ d.pc = "store"
                /\ curIndex' = d.msg.applyID
                /\ curIndex' > curIndex
                /\ d.msg.applyID \in stored'
                /\ d.msg.id \notin failed' \ failed
       /\ \A d \in Started : d.msg.applyID > curIndex]_vars

\* curIndex has advanced twice, no store is in flight and the batch holds a
\* message that is no newer than curIndex
C35_Witness ==
    /\ Cardinality(stored) >= 2
    /\ dumps = {}
    /\ \E i \in DOMAIN msgs : msgs[i].applyID <= curIndex


\* the step is that of dumpFunc d whose mp.store has succeeded
StoreSucceeds(d) ==
    /\ d \in dumps
    /\ d.pc = "store"
    /\ [d EXCEPT !.pc = "leader"] \in dumps'
    /\ d.msg.applyID \in stored'

\* C36: the raft log is truncated only in the step of a dumpFunc whose store
\* succeeded, at the curIndex of before that step, which is the initial
\* index or the ApplyID of a snapshot stored earlier and is not greater
\* than the ApplyID just stored; a failed store truncates nothing.
C36_TruncateAfterStore ==
    [][truncates' # truncates =>
          \E d \in dumps :
             /\ StoreSucceeds(d)
             /\ truncates' = truncates \cup {[index |-> curIndex, applyID |-> d.msg.applyID]}
             /\ stored = {} \/ curIndex \in stored
             /\ curIndex <= d.msg.applyID]_vars

\* the log has been truncated at the ApplyID of an earlier stored snapshot,
\* and some store has failed
C36_Witness ==
    /\ \E r \in truncates : r.index \in stored /\ r.applyID \in stored
    /\ failed # {}


\* the messages of the batch that are newer than curIndex
Newer == {i \in DOMAIN msgs : msgs[i].applyID > curIndex}

\* the close counts once every message of the batch but the one at keep
\* has been closed once
ClosedBut(keep) ==
    [id \in DOMAIN closed |->
        closed[id] + Cardinality({j \in DOMAIN msgs \ keep : msgs[j].id = id})]

\* C37: the step that takes the ready token starts a store for exactly one
\* message of greatest ApplyID among those newer than curIndex, and for none
\* if there is no such message; it closes the snapshot of every other
\* message of the batch once, leaves the chosen snapshot open and empties
\* the batch.
C37_BatchReduced ==
    [][readyChan' < readyChan =>
          /\ msgs' = <<>>
          /\ dumps' = dumps \cup Started
          /\ IF Newer = {}
             THEN Started = {} /\ closed' = ClosedBut({})
             ELSE \E i \in Newer :
                     /\ \A j \in Newer : msgs[j].applyID <= msgs[i].applyID
                     /\ Started = {[pc |-> "store", msg |-> msgs[i]]}
                     /\ closed' = ClosedBut({i})
                     /\ closed'[msgs[i].id] = closed[msgs[i].id]]_vars

\* a batch of three has just been reduced: one store started on an open
\* snapshot, the two other snapshots closed once each
C37_Witness ==
    /\ schedulePc = "for"
    /\ msgs = <<>>
    /\ readyChan = 0
    /\ stored \cup failed = {}
    /\ \E d \in dumps : d.pc = "store" /\ closed[d.msg.id] = 0
    /\ Cardinality({id \in DOMAIN closed : closed[id] = 1}) = 2


\* ------------------------------------------------------------ the retry of a failed store
\* a dumpFunc is about to send the message of snapshot id again
Retrying(id) == \E d \in dumps : d.pc = "retry" /\ d.msg.id = id

\* a store of snapshot id has been started
Storing(id) == \E d \in dumps : d.pc = "store" /\ d.msg.id = id

\* C38: once the store of a snapshot has failed, a new store of it is
\* eventually started, unless the scheduler is stopped or the snapshot is
\* closed in favour of a newer one, with no help from a timer or a further
\* message.
C38_RetryStarts ==
    \A id \in 1..MaxSnaps :
        Retrying(id) ~> (Storing(id) \/ stopC \/ closed[id] > 0)

\* the scheduler waits in its select with the failed message in its batch
\* and nothing left to wake it but a timer or a further message
Stranded ==
    /\ schedulePc = "select"
    /\ ~stopC
    /\ \E i \in DOMAIN msgs : msgs[i].id \in failed
    /\ scheduleState = StateStopped
    /\ dumps = {}
    /\ readyChan = 0
    /\ storeChan = <<>>

\* the retry is never left stranded
RetryNeverStranded == ~Stranded

====
